---- MODULE Spec2Model ----
(***************************************************************************)
(* The tool invocation and orchestration engine of the BHTI agent lessons: *)
(* ChatMessageMemory, AgentToolExecutor and the Agent.run variants         *)
(* (native function-calling loop, single-step native run, text-prompt run).*)
(***************************************************************************)
EXTENDS Integers, Sequences, FiniteSets, TLC

\* ------------------------------------------------------------- bounds
\* Largest iteration budget an Agent is constructed with.
MaxIter == 2
\* Largest number of tool invocations in one assistant turn.
MaxCalls == 2
\* Number of Agent.run calls made on one agent.
MaxRuns == 2
\* Total number of tool invocations the LM backend requests.
MaxToolCalls == 3
\* Number of executor operations in the registry specification.
MaxOps == 3
\* Longest arbitrary text handed to the JSON extractor, in lexemes.
MaxTextLen == 5

VARIABLES
    tools,           \* AgentToolExecutor.tools: name -> AgentTool
    memory,          \* ChatMessageMemory.messages
    tool_history,    \* Agent.tool_history
    max_iterations,  \* Agent.max_iterations
    pc,              \* position of the running handler
    iter,            \* iterations of the for loop begun in this run
    response,        \* the LM response being interpreted
    idx,             \* index of the next tool call of response.tool_calls
    chat_history,    \* the request sent by the latest LM call
    user_message,    \* the argument of the current run
    outcome,         \* how the latest operation ended: [kind, value]
    lmCalls,         \* llm_client.generate calls made in this run
    invoked,         \* ids of the invocations whose callable was entered, this run
    attempted,       \* ids of the invocations handed to executor.execute, this run
    validated,       \* ids of the invocations whose arguments were validated, this run
    runTurns,        \* turns appended to tool_history in this run
    nextId,          \* next invocation id the LM backend hands out
    runs,            \* Agent.run calls (executor operations) made so far
    regLog,          \* the tools handed to register_tool, in call order
    execLog,         \* the arguments of the direct executor.execute calls, in call order
    extracted,       \* what the latest parse_nested_json call returned
    action_dict,     \* what the latest parse_response call of a text-prompt agent gave
    react_loop,      \* the ReAct run's react_loop: thoughts and observations so far
    handles,         \* the lists get_messages returned, as their callers hold them
    memLog,          \* the direct calls on ChatMessageMemory and on those lists, in order
    heap,            \* two-agent view: the list and dict objects the agents created
    agents,          \* two-agent view: per Agent instance, the objects its fields refer to
    actLog,          \* two-agent view: the operations made, with the agent they were made on
    descriptor,      \* the AgentTool constructed, NoTool before and when construction failed
    toolLog          \* the calls made on the AgentTool, with what each returned

vars == <<descriptor, toolLog, heap, agents, actLog, handles, memLog, tools, memory, tool_history, max_iterations, pc, iter, response, idx,
          chat_history, user_message, outcome, lmCalls, invoked, attempted,
          validated, runTurns, nextId, runs, regLog, execLog, extracted, action_dict, react_loop>>

\* ------------------------------------------------------------- turns
NoCalls == << >>

\* Every turn has the same fields; content is a sequence of words, empty for
\* the content=None of an assistant turn that requests tools.
SystemMessage ==
    [role |-> "system", content |-> <<"You are a weather assistant.">>,
     tool_calls |-> NoCalls, tool_call_id |-> 0, name |-> ""]

UserMessage(text) ==
    [role |-> "user", content |-> <<text>>, tool_calls |-> NoCalls,
     tool_call_id |-> 0, name |-> ""]

\* What the caller asks.
Questions == {"What is the weather in Virginia?"}

AssistantMessage(content, calls) ==
    [role |-> "assistant", content |-> content, tool_calls |-> calls,
     tool_call_id |-> 0, name |-> ""]

ToolMessageWrongId(call, results) ==
    [role |-> "tool", content |-> results, tool_calls |-> NoCalls,
     tool_call_id |-> 0, name |-> call.name]

\* The dict appended per executed invocation.
ToolMessage(call, results) ==
    [role |-> "tool", content |-> results, tool_calls |-> NoCalls,
     tool_call_id |-> call.id, name |-> call.name]

NoResponse == AssistantMessage(<<"none">>, NoCalls)
FinalText == <<"It is 70F in Virginia.">>

\* ------------------------------------------------------------- tools
\* get_weather and jump of the lessons, and a second callable that is also
\* named get_weather.
\* A Python function: its __name__ and __doc__ ("" when it has no docstring).
Callable(name, doc) == [name |-> name, doc |-> doc]
\* A pydantic args model: class name, docstring, fields and required fields.
Schema(title, doc, properties, required) ==
    [title |-> title, doc |-> doc, properties |-> properties, required |-> required]
GetWeatherSchema ==
    Schema("GetWeatherSchema", "Get weather information based on location.",
           {"location"}, {"location"})
JumpSchema == Schema("JumpSchema", "Jump a specific distance", {"distance"}, {"distance"})

\* AgentTool.__init__: description = func.__doc__ or
\* self.args_schema.get('description', '')
AgentToolInit(func, args_model) ==
    [name |-> func.name, func |-> func.name, func_doc |-> func.doc,
     description |-> IF func.doc # "" THEN func.doc ELSE args_model.doc,
     title |-> args_model.title, schema_description |-> args_model.doc,
     properties |-> args_model.properties, required |-> args_model.required]

GetWeather == AgentToolInit(Callable("get_weather", "Gets weather information."), GetWeatherSchema)
Jump == AgentToolInit(Callable("jump", "Jumps a specific distance."), JumpSchema)
GetWeather2 == [GetWeather EXCEPT !.func = "get_weather_2"]

ToolDescs == {GetWeather, Jump, GetWeather2}
ToolNames == {"get_weather", "jump"}
\* Raw argument payloads (JSON objects), by the argument names they carry.
Payloads == {<<"location">>, <<"distance">>}
Range(s) == {s[i] : i \in DOMAIN s}

EmptyRegistry == [n \in {} |-> GetWeather]

RegisterOverwrite(reg, tool) ==
    [n \in DOMAIN reg \cup {tool.name} |-> IF n = tool.name THEN tool ELSE reg[n]]

\* AgentToolExecutor.register_tool: the registry after the call, and whether
\* it raised.
RegisterRaises(reg, tool) == tool.name \in DOMAIN reg

RegisterResult(reg, tool) ==
    IF RegisterRaises(reg, tool)
    THEN reg
    ELSE [n \in DOMAIN reg \cup {tool.name} |-> IF n = tool.name THEN tool ELSE reg[n]]

\* AgentTool.args_schema: the JSON schema without its title
args_schema(tool) ==
    [description |-> tool.schema_description, properties |-> tool.properties,
     required |-> tool.required]

\* AgentTool.validate_json_args: every required field is in the payload.
validate_json_args(tool, payload) == tool.required \subseteq Range(payload)

\* str(execution_results) of a tool that returned: the callable is handed
\* validated_args.model_dump(), the fields the schema declares.
ToolOutput(tool, payload) ==
    <<tool.func>> \o SelectSeq(payload, LAMBDA x : x \in tool.properties)

\* execute that hands every payload to the callable unvalidated.
ExecuteStatusNoValidation(reg, tool_name, payload, behaviour) ==
    IF tool_name \notin DOMAIN reg THEN "not_found"
    ELSE IF behaviour = "raise" THEN "tool_raised"
    ELSE "ok"

\* AgentToolExecutor.execute: "not_found", "invalid", "tool_raised" or "ok";
\* behaviour is what the callable does when it is entered.
ExecuteStatus(reg, tool_name, payload, behaviour) ==
    IF tool_name \notin DOMAIN reg THEN "not_found"
    ELSE IF ~validate_json_args(reg[tool_name], payload) THEN "invalid"
    ELSE IF behaviour = "raise" THEN "tool_raised"
    ELSE "ok"

\* Whether execute entered the callable.
ExecuteInvokes(status) == status \in {"ok", "tool_raised"}

\* execute that validates the payload before looking the name up.
ExecuteValidatesAlways(status) == TRUE

\* Whether execute called tool.validate_json_args: only once the name was found.
ExecuteValidates(status) == status # "not_found"


\* ------------------------------------------------------------- memory
\* ChatMessageMemory.add_message
add_message(messages, message) == Append(messages, message)

\* ChatMessageMemory.get_messages: a copy of the list
get_messages(messages) == messages

\* add_messages that adds the turns last to first.
RECURSIVE add_messages_reversed(_, _)
add_messages_reversed(messages, new) ==
    IF new = << >> THEN messages
    ELSE add_message(add_messages_reversed(messages, Tail(new)), Head(new))

\* add_messages: for message in messages: self.add_message(message)
RECURSIVE add_messages(_, _)
add_messages(messages, new) ==
    IF new = << >> THEN messages
    ELSE add_messages(add_message(messages, Head(new)), Tail(new))

\* ------------------------------------------------------------- outcomes
NoError == [tool |-> "", id |-> 0, cause |-> ""]
Running == [op |-> "run", kind |-> "running", value |-> << >>, error |-> NoError]
NoOutcome == [op |-> "", kind |-> "none", value |-> << >>, error |-> NoError]
\* return response
ReturnResponse(r) ==
    [op |-> "run", kind |-> "return_response", value |-> <<r>>, error |-> NoError]
\* the end of the function body is reached: the call evaluates to None
ReturnNone == [op |-> "run", kind |-> "return_None", value |-> << >>, error |-> NoError]
\* raise ValueError(f"Execution error in tool '{tool_name}': {e}") from e
Raise(call, cause) ==
    [op |-> "run", kind |-> "raise", value |-> << >>,
     error |-> [tool |-> call.name, id |-> call.id, cause |-> cause]]

\* JSON values: a string, or an object as its list of members.
JsonString(x) == [kind |-> "str", text |-> x, members |-> << >>]
JsonObject(ms) == [kind |-> "obj", text |-> "", members |-> ms]
\* No AgentTool: none constructed yet, or the construction raised
NoTool == [name |-> ""]
\* parse_nested_json returned None
NoJson == [kind |-> "none", val |-> JsonString("")]
\* parse_response returned None
NoAction == [kind |-> "none", name |-> "", args_json |-> << >>, cause |-> ""]

\* ------------------------------------------------------------- LM backend
Min(a, b) == IF a < b THEN a ELSE b

\* The tool_calls lists the backend can answer with: 1..MaxCalls invocations,
\* ids handed out in sequence from first.
ToolCallLists(first) ==
    UNION { { [i \in 1..n |-> [id |-> first + i - 1, name |-> f[i][1], arguments |-> f[i][2]]] :
              f \in [1..n -> ToolNames \X Payloads] } :
            n \in 1..Min(MaxCalls, MaxToolCalls - first + 1) }

\* One assistant turn: final text, or a request for tool invocations.
LMResponses(first) ==
    {AssistantMessage(FinalText, NoCalls)}
      \cup {AssistantMessage(<< >>, c) : c \in ToolCallLists(first)}

\* ------------------------------------------------------------- Agent (loop)
\* Agent.__init__ registers the tools it is given, in order.
RECURSIVE RegisterAll(_, _)
RegisterAll(reg, list) ==
    IF list = << >> THEN reg
    ELSE RegisterAll(RegisterResult(reg, Head(list)), Tail(list))

ConstructedRegistries ==
    {RegisterAll(EmptyRegistry, <<GetWeather, Jump>>),
     RegisterAll(EmptyRegistry, <<GetWeather>>)}

Init ==
    /\ tools \in ConstructedRegistries
    /\ memory = << >>
    /\ tool_history = << >>
    /\ max_iterations \in 0..MaxIter
    /\ pc = "idle"
    /\ iter = 0
    /\ response = NoResponse
    /\ idx = 1
    /\ chat_history = << >>
    /\ user_message = NoResponse
    /\ outcome = NoOutcome
    /\ lmCalls = 0
    /\ invoked = << >>
    /\ attempted = << >>
    /\ validated = << >>
    /\ runTurns = << >>
    /\ nextId = 1
    /\ runs = 0
    /\ regLog = << >>
    /\ execLog = << >>
    /\ extracted = NoJson
    /\ action_dict = NoAction
    /\ react_loop = << >>
    /\ handles = << >>
    /\ memLog = << >>
    /\ descriptor = NoTool
    /\ toolLog = << >>
    /\ heap = << >>
    /\ agents = << >>
    /\ actLog = << >>

\* run(user_message): self.memory.add_message(user_message)
RunStart ==
    /\ pc = "idle"
    /\ runs < MaxRuns
    /\ \E q \in Questions :
         /\ user_message' = UserMessage(q)
         /\ memory' = add_message(memory, UserMessage(q))
    /\ pc' = "loop"
    /\ iter' = 0
    /\ lmCalls' = 0
    /\ invoked' = << >>
    /\ attempted' = << >>
    /\ validated' = << >>
    /\ runTurns' = << >>
    /\ response' = NoResponse
    /\ outcome' = Running
    /\ runs' = runs + 1
    /\ UNCHANGED <<descriptor, toolLog, heap, agents, actLog, handles, memLog, tools, tool_history, max_iterations, idx, chat_history, nextId, regLog, execLog, extracted, action_dict, react_loop>>

BudgetLeftOffByOne == iter <= max_iterations

\* for _ in range(self.max_iterations)
BudgetLeft == iter < max_iterations

\* chat_history = [self.system_message] + self.memory.get_messages() + self.tool_history
BuildChatHistory == <<SystemMessage>> \o get_messages(memory) \o tool_history

\* response = self.llm_client.generate(chat_history, tools=self.function_calls)
LMCall ==
    /\ pc = "loop"
    /\ BudgetLeft
    /\ chat_history' = BuildChatHistory
    /\ \E r \in LMResponses(nextId) :
         /\ response' = r
         /\ nextId' = nextId + Len(r.tool_calls)
    /\ lmCalls' = lmCalls + 1
    /\ iter' = iter + 1
    /\ pc' = "parse"
    /\ UNCHANGED <<descriptor, toolLog, heap, agents, actLog, handles, memLog, tools, memory, tool_history, max_iterations, idx, user_message,
                   outcome, invoked, attempted, validated, runTurns, runs, regLog, execLog, extracted, action_dict, react_loop>>

\* The for loop ends and run has no statement after it.
LoopExit ==
    /\ pc = "loop"
    /\ ~BudgetLeft
    /\ pc' = "idle"
    /\ outcome' = ReturnNone
    /\ UNCHANGED <<descriptor, toolLog, heap, agents, actLog, handles, memLog, tools, memory, tool_history, max_iterations, iter, response, idx,
                   chat_history, user_message, lmCalls, invoked, attempted, validated, runTurns,
                   nextId, runs, regLog, execLog, extracted, action_dict, react_loop>>

\* if response.tool_calls:
RequestsTools(r) == r.tool_calls # << >>

\* parse_response, tool branch: self.tool_history.append(response)
ParseToolRequest ==
    /\ pc = "parse"
    /\ RequestsTools(response)
    /\ tool_history' = Append(tool_history, response)
    /\ runTurns' = Append(runTurns, response)
    /\ idx' = 1
    /\ pc' = "exec"
    /\ UNCHANGED <<descriptor, toolLog, heap, agents, actLog, handles, memLog, tools, memory, max_iterations, iter, response, chat_history,
                   user_message, outcome, lmCalls, invoked, attempted, validated, nextId, runs, regLog, execLog, extracted, action_dict, react_loop>>

MemoryAfterFinalWithToolHistory == add_message(memory \o tool_history, response)

\* self.memory.add_message(response)
MemoryAfterFinal == add_message(memory, response)

ToolHistoryKept == tool_history

\* self.tool_history = []
ToolHistoryAfterFinal == << >>

\* parse_response returned False: the final answer
FinalAnswer ==
    /\ pc = "parse"
    /\ ~RequestsTools(response)
    /\ memory' = MemoryAfterFinal
    /\ tool_history' = ToolHistoryAfterFinal
    /\ outcome' = ReturnResponse(response)
    /\ pc' = "idle"
    /\ UNCHANGED <<descriptor, toolLog, heap, agents, actLog, handles, memLog, tools, max_iterations, iter, response, idx, chat_history,
                   user_message, lmCalls, invoked, attempted, validated, runTurns, nextId, runs, regLog, execLog, extracted, action_dict, react_loop>>

\* A failure that is swallowed: an error text is recorded as the tool result
\* and the loop goes on with the next invocation.
OnToolFailureSwallowed(call, status) ==
    /\ tool_history' = Append(tool_history, ToolMessage(call, <<status>>))
    /\ runTurns' = Append(runTurns, ToolMessage(call, <<status>>))
    /\ idx' = idx + 1
    /\ pc' = IF idx = Len(response.tool_calls) THEN "loop" ELSE "exec"
    /\ UNCHANGED outcome

\* except Exception as e: raise ValueError(...) from e; run does not catch it
OnToolFailure(call, status) ==
    /\ outcome' = Raise(call, status)
    /\ pc' = "idle"
    /\ UNCHANGED <<tool_history, runTurns, idx>>

\* parse_response that returns after the first invocation of the turn.
OnToolSuccessReturnsEarly(call, results) ==
    /\ tool_history' = Append(tool_history, ToolMessage(call, results))
    /\ runTurns' = Append(runTurns, ToolMessage(call, results))
    /\ idx' = idx + 1
    /\ pc' = "loop"
    /\ UNCHANGED outcome

\* self.tool_history.append({"role": "tool", ...}); the for loop goes on, and
\* parse_response returns True after the last invocation
OnToolSuccess(call, results) ==
    /\ tool_history' = Append(tool_history, ToolMessage(call, results))
    /\ runTurns' = Append(runTurns, ToolMessage(call, results))
    /\ idx' = idx + 1
    /\ pc' = IF idx = Len(response.tool_calls) THEN "loop" ELSE "exec"
    /\ UNCHANGED outcome

\* One pass of "for tool in response.tool_calls" in parse_response.
ExecTool ==
    /\ pc = "exec"
    /\ LET call == response.tool_calls[idx] IN
       \E behaviour \in {"return", "raise"} :
         LET status == ExecuteStatus(tools, call.name, call.arguments, behaviour) IN
           /\ attempted' = Append(attempted, call.id)
           /\ validated' = IF ExecuteValidates(status) THEN Append(validated, call.id)
                           ELSE validated
           /\ invoked' = IF ExecuteInvokes(status) THEN Append(invoked, call.id) ELSE invoked
           /\ IF status = "ok"
              THEN OnToolSuccess(call, ToolOutput(tools[call.name], call.arguments))
              ELSE OnToolFailure(call, status)
    /\ UNCHANGED <<descriptor, toolLog, heap, agents, actLog, handles, memLog, tools, memory, max_iterations, iter, response, chat_history,
                   user_message, lmCalls, nextId, runs, regLog, execLog, extracted, action_dict, react_loop>>

Next ==
    \/ RunStart
    \/ LMCall
    \/ LoopExit
    \/ ParseToolRequest
    \/ FinalAnswer
    \/ ExecTool

Spec == Init /\ [][Next]_vars

\* The loop is sequential code: a run that has started keeps taking steps.
FairSpec == Spec /\ WF_vars(Next)

\* ------------------------------------------------------------- properties
CountRole(turns, role) == Cardinality({i \in DOMAIN turns : turns[i].role = role})

RunEnded == pc = "idle" /\ runs > 0

\* The run used up its iterations: it ended with neither a final answer nor
\* an error.
BudgetUsedUp == RunEnded /\ outcome.kind \notin {"return_response", "raise"}

\* C1: a native run whose every LM response requests tools that execute
\* successfully makes exactly max_iterations LM calls and then ends; no run
\* makes more than max_iterations LM calls, and every run that has started
\* comes back to the caller.
C1_ExactlyNLMCalls ==
    /\ [](/\ lmCalls <= max_iterations
          /\ BudgetUsedUp =>
               /\ lmCalls = max_iterations
               /\ CountRole(runTurns, "assistant") = max_iterations
               /\ Len(invoked) = CountRole(runTurns, "tool"))
    /\ ((pc # "idle") ~> (pc = "idle"))

C1_Witness ==
    /\ BudgetUsedUp
    /\ max_iterations = 2
    /\ lmCalls = 2
    /\ CountRole(runTurns, "tool") >= 2

\* An outcome that says the budget ran out: a dedicated error or a dedicated
\* result, which no final answer and no tool failure produces.
ExplicitBudgetReport(o) == o.kind \in {"raise_budget_exhausted", "return_budget_exhausted"}

\* C2: when run uses up its iterations without a final answer, the caller
\* gets an explicit budget-exhaustion outcome, different from a final answer
\* and from an error, not the silent end of the function.
C2_BudgetExhaustionReported == BudgetUsedUp => ExplicitBudgetReport(outcome)

\* One tool request with one invocation, executed, then final text, on a
\* fresh agent.
C3_Scenario ==
    /\ RunEnded
    /\ runs = 1
    /\ outcome.kind = "return_response"
    /\ lmCalls = 2
    /\ Len(runTurns) = 2
    /\ runTurns[1].role = "assistant"
    /\ Len(runTurns[1].tool_calls) = 1
    /\ runTurns[2].role = "tool"
    /\ runTurns[2].tool_call_id = runTurns[1].tool_calls[1].id

\* C3 as stated: run returns the final assistant turn and memory holds the
\* user turn, the assistant tool-request turn, the tool-result turn and the
\* final assistant turn, in that order.
C3_MemoryHoldsFourTurns ==
    C3_Scenario =>
        /\ outcome.value = <<response>>
        /\ memory = <<user_message>> \o runTurns \o <<response>>

\* C3 as amended: run returns the final assistant turn and memory holds
\* exactly the user turn and the final assistant turn; the tool-request and
\* tool-result turns were sent to the LM, after the user turn, in the request
\* of the second call, and the tool history is empty afterwards.
C3_MemoryHoldsTwoTurns ==
    C3_Scenario =>
        /\ outcome.value = <<response>>
        /\ response.role = "assistant" /\ response.content = FinalText
        /\ memory = <<user_message, response>>
        /\ chat_history = <<SystemMessage, user_message>> \o runTurns
        /\ tool_history = << >>

C3_Witness == C3_Scenario /\ memory = <<user_message, response>>

Last(s) == s[Len(s)]

\* Invocations handed to execute that never reached the callable.
RejectedIds == Range(attempted) \ Range(invoked)
\* Invocations whose callable was entered and that left no tool-result turn.
UnansweredIds ==
    {id \in Range(invoked) :
       \A i \in DOMAIN runTurns :
          ~(runTurns[i].role = "tool" /\ runTurns[i].tool_call_id = id)}

\* C4: when invocation j of an assistant turn fails, the invocations listed
\* after j are never handed to the executor, no further LM call is made in
\* that run, and the failure comes out of run as an error.
C4_FailureAbortsTurn ==
    /\ (RejectedIds \cup UnansweredIds) # {} =>
          /\ RunEnded
          /\ outcome.kind = "raise"
          /\ RejectedIds \cup UnansweredIds = {outcome.error.id}
    /\ (RunEnded /\ outcome.kind = "raise") =>
          /\ idx \in DOMAIN response.tool_calls
          /\ outcome.error.id = response.tool_calls[idx].id
          /\ outcome.error.tool = response.tool_calls[idx].name
          /\ Last(attempted) = outcome.error.id
          /\ \A i \in (idx + 1)..Len(response.tool_calls) :
                response.tool_calls[i].id \notin Range(attempted)
          /\ Last(runTurns) = IF idx = 1 THEN response
                              ELSE ToolMessage(response.tool_calls[idx - 1],
                                               Last(runTurns).content)
          /\ lmCalls = CountRole(runTurns, "assistant")

C4_Witness ==
    /\ RunEnded
    /\ outcome.kind = "raise"
    /\ Len(response.tool_calls) = 2
    /\ idx = 1

\* The turn whose invocations are being executed, or were executed last.
TurnInHistory == pc \in {"exec", "loop", "idle"} /\ RequestsTools(response)

\* C5: the invocations of an assistant turn are executed one at a time in the
\* order listed, and one tool-result turn per executed invocation is appended
\* after the assistant turn, in the same order, carrying the id and the name
\* of the invocation it answers; when the turn is done there are k of them.
C5_ResultsInRequestOrder ==
    TurnInHistory =>
        LET calls == response.tool_calls
            done == idx - 1
            tried == IF outcome.kind = "raise" THEN idx ELSE idx - 1
            n == Len(tool_history)
            a == Len(attempted)
        IN  /\ n >= done + 1
            /\ tool_history[n - done] = response
            /\ \A i \in 1..done :
                  /\ tool_history[n - done + i].role = "tool"
                  /\ tool_history[n - done + i].tool_call_id = calls[i].id
                  /\ tool_history[n - done + i].name = calls[i].name
            /\ a >= tried
            /\ \A i \in 1..tried : attempted[a - tried + i] = calls[i].id
            /\ (pc = "loop" => done = Len(calls))

C5_Witness ==
    /\ pc = "loop"
    /\ Len(response.tool_calls) = 2
    /\ response.tool_calls[1].name # response.tool_calls[2].name
    /\ Len(tool_history) >= 3

\* C7: when the LM response requests no tool, run executes no tool for it,
\* appends it to memory after the user turn, empties the tool history and
\* returns that response.
C7_FinalAnswerPath ==
    (RunEnded /\ outcome.kind = "return_response") =>
        /\ ~RequestsTools(response)
        /\ outcome.value = <<response>>
        /\ Len(memory) >= 2
        /\ SubSeq(memory, Len(memory) - 1, Len(memory)) = <<user_message, response>>
        /\ tool_history = << >>
        /\ Len(attempted) = CountRole(runTurns, "tool")
        /\ lmCalls = CountRole(runTurns, "assistant") + 1

C7_Witness ==
    /\ RunEnded
    /\ outcome.kind = "return_response"
    /\ runTurns # << >>
    /\ tool_history = << >>
    /\ Last(memory) = response

\* C9: the request of every LM call of the native loop is the system
\* message, then the memory snapshot, then the assistant tool-request turns
\* and tool-result turns accumulated so far in the current run, in order.
C9_RequestIsMemoryThenRunTurns ==
    pc = "parse" => chat_history = <<SystemMessage>> \o memory \o runTurns

\* ------------------------------------------------------------- Agent (single step)
\* The Agent whose run makes one LM call: it executes the requested tools and
\* returns the tool history, or stores and returns the final answer.
InitSingle == Init /\ max_iterations = 1

\* return self.tool_history
ReturnToolHistory(history) ==
    [op |-> "run", kind |-> "return_tool_history", value |-> history, error |-> NoError]

\* run(user_message) up to "if response.tool_calls:"
SingleRunStart ==
    /\ pc = "idle"
    /\ runs < MaxRuns
    /\ \E q \in Questions :
         /\ user_message' = UserMessage(q)
         /\ memory' = add_message(memory, UserMessage(q))
    /\ chat_history' = <<SystemMessage>> \o get_messages(memory') \o tool_history
    /\ \E r \in LMResponses(nextId) :
         /\ response' = r
         /\ nextId' = nextId + Len(r.tool_calls)
         /\ pc' = IF RequestsTools(r) THEN "single_exec" ELSE "single_final"
    /\ lmCalls' = 1
    /\ iter' = 1
    /\ idx' = 1
    /\ invoked' = << >>
    /\ attempted' = << >>
    /\ validated' = << >>
    /\ runTurns' = << >>
    /\ outcome' = Running
    /\ runs' = runs + 1
    /\ UNCHANGED <<descriptor, toolLog, heap, agents, actLog, handles, memLog, tools, tool_history, max_iterations, regLog, execLog, extracted, action_dict, react_loop>>

\* One pass of "for tool in response.tool_calls" in run; after the last one,
\* return self.tool_history.
SingleExecTool ==
    /\ pc = "single_exec"
    /\ LET call == response.tool_calls[idx] IN
       \E behaviour \in {"return", "raise"} :
         LET status == ExecuteStatus(tools, call.name, call.arguments, behaviour) IN
           /\ attempted' = Append(attempted, call.id)
           /\ validated' = IF ExecuteValidates(status) THEN Append(validated, call.id)
                           ELSE validated
           /\ invoked' = IF ExecuteInvokes(status) THEN Append(invoked, call.id) ELSE invoked
           /\ IF status = "ok"
              THEN LET turn == ToolMessage(call, ToolOutput(tools[call.name], call.arguments)) IN
                   /\ tool_history' = Append(tool_history, turn)
                   /\ runTurns' = Append(runTurns, turn)
                   /\ idx' = idx + 1
                   /\ IF idx = Len(response.tool_calls)
                      THEN pc' = "idle" /\ outcome' = ReturnToolHistory(tool_history')
                      ELSE pc' = "single_exec" /\ UNCHANGED outcome
              ELSE OnToolFailure(call, status)
    /\ UNCHANGED <<descriptor, toolLog, heap, agents, actLog, handles, memLog, tools, memory, max_iterations, iter, response, chat_history,
                   user_message, lmCalls, nextId, runs, regLog, execLog, extracted, action_dict, react_loop>>

\* else: self.memory.add_message(response); self.tool_history = []; return response
SingleFinalAnswer ==
    /\ pc = "single_final"
    /\ memory' = add_message(memory, response)
    /\ tool_history' = << >>
    /\ outcome' = ReturnResponse(response)
    /\ pc' = "idle"
    /\ UNCHANGED <<descriptor, toolLog, heap, agents, actLog, handles, memLog, tools, max_iterations, iter, response, idx, chat_history,
                   user_message, lmCalls, invoked, attempted, validated, runTurns, nextId, runs,
                   regLog, execLog, extracted, action_dict, react_loop>>

NextSingle ==
    \/ SingleRunStart
    \/ SingleExecTool
    \/ SingleFinalAnswer

SpecSingle == InitSingle /\ [][NextSingle]_vars

\* C6: every tool-result turn of the context sent to the LM answers an
\* invocation (same id) requested by the nearest assistant turn before it in
\* that context; no tool-result turn is without such an assistant turn.
C6_ToolResultFollowsItsRequest ==
    \A i \in DOMAIN chat_history :
       chat_history[i].role = "tool" =>
          \E j \in 1..(i - 1) :
             /\ chat_history[j].role = "assistant"
             /\ \A k \in (j + 1)..(i - 1) : chat_history[k].role # "assistant"
             /\ \E c \in DOMAIN chat_history[j].tool_calls :
                   chat_history[j].tool_calls[c].id = chat_history[i].tool_call_id

\* ------------------------------------------------------------- AgentToolExecutor
InitRegistry ==
    /\ tools = EmptyRegistry
    /\ memory = << >>
    /\ tool_history = << >>
    /\ max_iterations = 0
    /\ pc = "idle"
    /\ iter = 0
    /\ response = NoResponse
    /\ idx = 1
    /\ chat_history = << >>
    /\ user_message = NoResponse
    /\ outcome = NoOutcome
    /\ lmCalls = 0
    /\ invoked = << >>
    /\ attempted = << >>
    /\ validated = << >>
    /\ runTurns = << >>
    /\ nextId = 1
    /\ runs = 0
    /\ regLog = << >>
    /\ execLog = << >>
    /\ extracted = NoJson
    /\ action_dict = NoAction
    /\ react_loop = << >>
    /\ handles = << >>
    /\ memLog = << >>
    /\ descriptor = NoTool
    /\ toolLog = << >>
    /\ heap = << >>
    /\ agents = << >>
    /\ actLog = << >>

\* register_tool returns None
Registered == [op |-> "register_tool", kind |-> "return_None", value |-> << >>, error |-> NoError]
\* raise ValueError(f"Tool '{tool.name}' is already registered.")
AlreadyRegistered(tool) ==
    [op |-> "register_tool", kind |-> "raise", value |-> << >>,
     error |-> [tool |-> tool.name, id |-> 0, cause |-> "already_registered"]]

\* A value that is not a turn: the result a tool returned.
ResultValue(results) ==
    [role |-> "result", content |-> results, tool_calls |-> NoCalls,
     tool_call_id |-> 0, name |-> ""]

\* execute that answers a raising callable with an empty result.
ExecuteOutcomeFallback(reg, tool_name, payload, status) ==
    IF status \in {"ok", "tool_raised"}
    THEN [op |-> "execute", kind |-> "return_result",
          value |-> IF status = "ok"
                    THEN <<ResultValue(ToolOutput(reg[tool_name], payload))>>
                    ELSE <<ResultValue(<< >>)>>,
          error |-> NoError]
    ELSE [op |-> "execute", kind |-> "raise", value |-> << >>,
          error |-> [tool |-> tool_name, id |-> 0, cause |-> status]]

\* execute returned the tool's result, or raised
ExecuteOutcome(reg, tool_name, payload, status) ==
    IF status = "ok"
    THEN [op |-> "execute", kind |-> "return_result",
          value |-> <<ResultValue(ToolOutput(reg[tool_name], payload))>>, error |-> NoError]
    ELSE [op |-> "execute", kind |-> "raise", value |-> << >>,
          error |-> [tool |-> tool_name, id |-> 0, cause |-> status]]

\* executor.register_tool(tool)
RegisterTool ==
    /\ runs < MaxOps
    /\ \E tool \in ToolDescs :
         /\ regLog' = Append(regLog, tool)
         /\ tools' = RegisterResult(tools, tool)
         /\ outcome' = IF RegisterRaises(tools, tool) THEN AlreadyRegistered(tool)
                       ELSE Registered
    /\ runs' = runs + 1
    /\ UNCHANGED <<descriptor, toolLog, heap, agents, actLog, handles, memLog, memory, tool_history, max_iterations, pc, iter, response, idx,
                   chat_history, user_message, lmCalls, invoked, attempted, validated, runTurns,
                   nextId, execLog, extracted, action_dict, react_loop>>

\* The raw argument payloads handed to execute directly: the argument names
\* of the JSON object, among them none at all and one more than the schema has.
ExecutePayloads == Payloads \cup {<< >>, <<"location", "distance">>}

\* An execute that takes the tool out of the registry when it looks it up.
RegistryAfterExecutePops(reg, tool_name) ==
    [n \in DOMAIN reg \ {tool_name} |-> reg[n]]

\* execute: tool = self.tools.get(tool_name), a lookup that leaves the dict as
\* it is; nothing else in execute touches self.tools
RegistryAfterExecute(reg, tool_name) == reg

\* executor.execute(tool_name, tool_args)
Execute ==
    /\ runs < MaxOps
    /\ \E tool_name \in ToolNames, payload \in ExecutePayloads, behaviour \in {"return", "raise"} :
         LET status == ExecuteStatus(tools, tool_name, payload, behaviour) IN
           /\ outcome' = ExecuteOutcome(tools, tool_name, payload, status)
           /\ tools' = RegistryAfterExecute(tools, tool_name)
           /\ execLog' = Append(execLog, [id |-> runs + 1, name |-> tool_name,
                                          payload |-> payload, behaviour |-> behaviour])
           /\ attempted' = Append(attempted, runs + 1)
           /\ validated' = IF ExecuteValidates(status) THEN Append(validated, runs + 1)
                           ELSE validated
           /\ invoked' = IF ExecuteInvokes(status) THEN Append(invoked, runs + 1) ELSE invoked
    /\ runs' = runs + 1
    /\ UNCHANGED <<descriptor, toolLog, heap, agents, actLog, handles, memLog, memory, tool_history, max_iterations, pc, iter, response, idx,
                   chat_history, user_message, lmCalls, runTurns, nextId, regLog, extracted, action_dict, react_loop>>

\* The names in the order of their registration (a dict keeps insertion order).
RECURSIVE RegisteredNames(_)
RegisteredNames(log) ==
    IF log = << >> THEN << >>
    ELSE LET before == RegisteredNames(SubSeq(log, 1, Len(log) - 1)) IN
         IF Last(log).name \in Range(before) THEN before
         ELSE Append(before, Last(log).name)

RECURSIVE SetToSeq(_)
SetToSeq(S) ==
    IF S = {} THEN << >>
    ELSE LET x == CHOOSE y \in S : TRUE IN <<x>> \o SetToSeq(S \ {x})

\* get_tool_names: list(self.tools.keys()), a list of its own
get_tool_names(reg, log) == SelectSeq(RegisteredNames(log), LAMBDA n : n \in DOMAIN reg)

\* get_tool_details: "name: description Args schema: properties" per tool
RECURSIVE get_tool_details(_, _)
get_tool_details(reg, names) ==
    IF names = << >> THEN << >>
    ELSE <<reg[Head(names)].name, ":", reg[Head(names)].description, "Args schema:">>
           \o SetToSeq(args_schema(reg[Head(names)]).properties)
           \o get_tool_details(reg, Tail(names))

\* executor.get_tool_names()
GetToolNames ==
    /\ runs < MaxOps
    /\ outcome' = [op |-> "get_tool_names", kind |-> "return_result",
                   value |-> <<ResultValue(get_tool_names(tools, regLog))>>,
                   error |-> NoError]
    /\ runs' = runs + 1
    /\ UNCHANGED <<descriptor, toolLog, heap, agents, actLog, handles, memLog, tools, memory,
                   tool_history, max_iterations, pc, iter, response, idx, chat_history,
                   user_message, lmCalls, invoked, attempted, validated, runTurns,
                   nextId, regLog, execLog, extracted, action_dict, react_loop>>

\* executor.get_tool_details()
GetToolDetails ==
    /\ runs < MaxOps
    /\ outcome' = [op |-> "get_tool_details", kind |-> "return_result",
                   value |-> <<ResultValue(get_tool_details(
                                 tools, get_tool_names(tools, regLog)))>>,
                   error |-> NoError]
    /\ runs' = runs + 1
    /\ UNCHANGED <<descriptor, toolLog, heap, agents, actLog, handles, memLog, tools, memory,
                   tool_history, max_iterations, pc, iter, response, idx, chat_history,
                   user_message, lmCalls, invoked, attempted, validated, runTurns,
                   nextId, regLog, execLog, extracted, action_dict, react_loop>>

NextRegistry ==
    \/ RegisterTool
    \/ Execute
    \/ GetToolNames
    \/ GetToolDetails

SpecRegistry == InitRegistry /\ [][NextRegistry]_vars

\* The tool of the first register_tool call that carried this name.
FirstRegistered(name) ==
    regLog[CHOOSE i \in DOMAIN regLog :
              /\ regLog[i].name = name
              /\ \A j \in 1..(i - 1) : regLog[j].name # name]

\* The latest operation was a register_tool of a name registered before.
DuplicateRegistration ==
    /\ outcome.op = "register_tool"
    /\ \E j \in 1..(Len(regLog) - 1) : regLog[j].name = Last(regLog).name

\* C10: register_tool with a name that is already registered raises and
\* leaves the registry as it was: the names are those registered so far and
\* each still maps to the tool registered first under it.
C10_DuplicateRegistrationRejected ==
    /\ DOMAIN tools = {regLog[i].name : i \in DOMAIN regLog}
    /\ \A name \in DOMAIN tools : tools[name] = FirstRegistered(name)
    /\ outcome.op = "register_tool" =>
          (outcome.kind = "raise" <=> DuplicateRegistration)

C10_Witness ==
    /\ DuplicateRegistration
    /\ outcome.kind = "raise"
    /\ Last(regLog) = GetWeather2
    /\ tools["get_weather"] = GetWeather

\* The latest operation was a direct executor.execute call.
ExecuteEnded == outcome.op = "execute" /\ execLog # << >>

\* Occurrences of x in the sequence s.
Occurrences(s, x) == Cardinality({i \in DOMAIN s : s[i] = x})

\* C11: execute with a name that is not in the registry raises the
\* unknown-tool error with no side effect: the callable is not entered, the
\* arguments are not validated and the registry is left as it was.
C11_UnknownToolNoSideEffects ==
    /\ [](ExecuteEnded /\ Last(execLog).name \notin DOMAIN tools =>
            /\ outcome.kind = "raise"
            /\ outcome.error.tool = Last(execLog).name
            /\ outcome.error.cause = "not_found"
            /\ Last(execLog).id \notin Range(invoked)
            /\ Last(execLog).id \notin Range(validated))
    /\ [][execLog' # execLog => tools' = tools]_vars

C11_Witness ==
    /\ ExecuteEnded
    /\ Last(execLog).name = "jump"
    /\ DOMAIN tools = {"get_weather"}
    /\ outcome.error.cause = "not_found"

\* C12: execute on a registered tool returns the callable's result when the
\* payload satisfies the tool's schema; when a required argument is missing
\* or misnamed it raises an error that names the tool and carries the
\* validation failure, and the callable is not entered.
C12_ValidPayloadRunsInvalidRaises ==
    (ExecuteEnded /\ Last(execLog).name \in DOMAIN tools) =>
       LET e == Last(execLog)
           tool == tools[e.name]
       IN  /\ (tool.required \subseteq Range(e.payload) /\ e.behaviour = "return") =>
                  /\ outcome.kind = "return_result"
                  /\ outcome.value[1].content =
                        <<tool.func>> \o SelectSeq(e.payload, LAMBDA x : x \in tool.required)
           /\ ~(tool.required \subseteq Range(e.payload)) =>
                  /\ outcome.kind = "raise"
                  /\ outcome.error.tool = e.name
                  /\ outcome.error.cause = "invalid"
                  /\ e.id \notin Range(invoked)

C12_Witness ==
    /\ ExecuteEnded
    /\ Len(execLog) = 2
    /\ execLog[1].name = "get_weather" /\ execLog[1].payload = <<"location">>
    /\ execLog[1].id \in Range(invoked)
    /\ execLog[2].name = "get_weather" /\ execLog[2].payload = <<"distance">>
    /\ outcome.error.cause = "invalid"
    /\ execLog[2].id \notin Range(invoked)

\* C13: one execute call enters the callable at most once and only after the
\* validation of its payload succeeded; when the callable raises, execute
\* raises one error that names the tool and carries the failure: it does not
\* retry and returns no value.
C13_InvokedOnceAfterValidation ==
    /\ \A i \in DOMAIN execLog :
          LET e == execLog[i] IN
            /\ Occurrences(invoked, e.id) <= 1
            /\ e.id \in Range(invoked) =>
                  /\ e.id \in Range(validated)
                  /\ tools[e.name].required \subseteq Range(e.payload)
    /\ (ExecuteEnded /\ Last(execLog).id \in Range(invoked)
           /\ Last(execLog).behaviour = "raise") =>
          /\ outcome.kind = "raise"
          /\ outcome.value = << >>
          /\ outcome.error.tool = Last(execLog).name
          /\ outcome.error.cause = "tool_raised"

C13_Witness ==
    /\ ExecuteEnded
    /\ Last(execLog).behaviour = "raise"
    /\ Last(execLog).id \in Range(invoked)
    /\ Occurrences(invoked, Last(execLog).id) = 1
    /\ outcome.kind = "raise"

\* ------------------------------------------------------------- text-prompt protocol
\* An LM text is a sequence of lexemes: the braces "{" and "}", ":" and ",",
\* white space " ", a word of prose "w", the characters "\\", "n", "'" and
\* "NL" (a newline) that the unescaping step works on, and JSON strings
\* (every other lexeme, standing for the quoted string).
NotAString == {"{", "}", ":", ",", " ", "w", "\\", "n", "'", "NL"}
WhiteSpace == {" ", "NL"}

\* str.replace(old, new): leftmost occurrences, left to right, not overlapping
RECURSIVE Replace(_, _, _)
Replace(text, old, new) ==
    IF Len(text) < Len(old) THEN text
    ELSE IF SubSeq(text, 1, Len(old)) = old
         THEN new \o Replace(SubSeq(text, Len(old) + 1, Len(text)), old, new)
         ELSE <<Head(text)>> \o Replace(Tail(text), old, new)

\* .replace('\\\\n', '\\n').replace('\\n', '\n').replace('\\\'', '\'').replace('\\\\', '\\')
Unescape(text) ==
    Replace(Replace(Replace(Replace(text, <<"\\", "\\", "n">>, <<"\\", "n">>),
                            <<"\\", "n">>, <<"NL">>),
                    <<"\\", "'">>, <<"'">>),
            <<"\\", "\\">>, <<"\\">>)

\* .replace('{{', '{').replace('}}', '}')
SingleBraces(text) == Replace(Replace(text, <<"{", "{">>, <<"{">>), <<"}", "}">>, <<"}">>)

\* Where the group opened before position k closes, depth groups being open;
\* 0 when the text ends first.
RECURSIVE GroupEnd(_, _, _)
GroupEnd(text, k, depth) ==
    IF k > Len(text) THEN 0
    ELSE IF text[k] = "{" THEN GroupEnd(text, k + 1, depth + 1)
    ELSE IF text[k] = "}"
         THEN IF depth = 1 THEN k ELSE GroupEnd(text, k + 1, depth - 1)
    ELSE GroupEnd(text, k + 1, depth)

\* The pattern \{(?:[^{}]|(?R))*\} tried at position i: the end of the match,
\* 0 when it does not match there.
MatchAt(text, i) == IF text[i] = "{" THEN GroupEnd(text, i + 1, 1) ELSE 0

\* A search that takes a group the text leaves open as running to its end.
SearchToEnd(text) ==
    LET starts == {i \in DOMAIN text : text[i] = "{"} IN
    IF starts = {} THEN [start |-> 0, end |-> 0]
    ELSE LET i == CHOOSE x \in starts : \A y \in starts : x <= y IN
         [start |-> i, end |-> IF MatchAt(text, i) # 0 THEN MatchAt(text, i) ELSE Len(text)]

\* A search that returns the last top-level match instead of the first.
SearchLast(text) ==
    LET starts == {i \in DOMAIN text :
                      /\ MatchAt(text, i) # 0
                      /\ \A j \in 1..(i - 1) : MatchAt(text, j) = 0 \/ MatchAt(text, j) < i}
    IN  IF starts = {} THEN [start |-> 0, end |-> 0]
        ELSE LET i == CHOOSE x \in starts : \A y \in starts : y <= x IN
             [start |-> i, end |-> MatchAt(text, i)]

\* pattern.search(text): the leftmost match as [start, end]; start = 0 when
\* there is none.
Search(text) ==
    LET starts == {i \in DOMAIN text : MatchAt(text, i) # 0} IN
    IF starts = {} THEN [start |-> 0, end |-> 0]
    ELSE LET i == CHOOSE x \in starts : \A y \in starts : x <= y IN
         [start |-> i, end |-> MatchAt(text, i)]

ParseFailed == [ok |-> FALSE, val |-> JsonString(""), next |-> 0]

SkipSpace(text) == SelectSeq(text, LAMBDA x : x \notin WhiteSpace)

\* Recursive descent over the lexemes t from position i: [ok, val, next].
RECURSIVE ParseValue(_, _), ParseMembers(_, _, _)
ParseValue(t, i) ==
    IF i > Len(t) THEN ParseFailed
    ELSE IF t[i] \notin NotAString THEN [ok |-> TRUE, val |-> JsonString(t[i]), next |-> i + 1]
    ELSE IF t[i] = "{"
         THEN IF i + 1 <= Len(t) /\ t[i + 1] = "}"
              THEN [ok |-> TRUE, val |-> JsonObject(<< >>), next |-> i + 2]
              ELSE ParseMembers(t, i + 1, << >>)
    ELSE ParseFailed

ParseMembers(t, i, acc) ==
    IF i + 1 > Len(t) \/ t[i] \in NotAString \/ t[i + 1] # ":" THEN ParseFailed
    ELSE LET v == ParseValue(t, i + 2) IN
         IF ~v.ok \/ v.next > Len(t) THEN ParseFailed
         ELSE LET ms == Append(acc, [key |-> t[i], val |-> v.val]) IN
              IF t[v.next] = "}" THEN [ok |-> TRUE, val |-> JsonObject(ms), next |-> v.next + 1]
              ELSE IF t[v.next] = "," THEN ParseMembers(t, v.next + 1, ms)
              ELSE ParseFailed

\* json.loads(span): [ok, val]; not ok stands for json.JSONDecodeError
json_loads(span) ==
    LET t == SkipSpace(span)
        r == ParseValue(t, 1)
    IN  IF r.ok /\ r.next = Len(t) + 1 THEN [ok |-> TRUE, val |-> r.val]
        ELSE [ok |-> FALSE, val |-> JsonString("")]

HasKey(obj, key) == \E i \in DOMAIN obj.members : obj.members[i].key = key
\* dict lookup: the last member with the key wins
Lookup(obj, key) ==
    obj.members[CHOOSE i \in DOMAIN obj.members :
                   /\ obj.members[i].key = key
                   /\ \A j \in (i + 1)..Len(obj.members) : obj.members[j].key # key].val

\* The argument names of the payload json.dumps(arguments); a payload that is
\* not a JSON object names none.
ArgsPayload(val) ==
    IF val.kind = "obj" THEN [i \in DOMAIN val.members |-> val.members[i].key] ELSE << >>

ParseRaises(cause) == [kind |-> "raise", name |-> "", args_json |-> << >>, cause |-> cause]

\* Agent.parse_response of the text-prompt agents: the action found in the
\* text, None, or the exception that comes out.
parse_response(content) ==
    LET message_content == SingleBraces(Unescape(content))
        match == Search(message_content)
    IN  IF match.start = 0 THEN NoAction
        ELSE LET loaded == json_loads(SubSeq(message_content, match.start, match.end)) IN
             IF ~loaded.ok THEN ParseRaises("ValueError: Invalid JSON in action content")
             ELSE IF ~HasKey(loaded.val, "arguments") THEN ParseRaises("KeyError: arguments")
             ELSE IF ~HasKey(loaded.val, "name") THEN ParseRaises("KeyError: name")
             ELSE IF Lookup(loaded.val, "name").kind # "str"
                  THEN ParseRaises("TypeError: unhashable type")
             ELSE [kind |-> "action", name |-> Lookup(loaded.val, "name").text,
                   args_json |-> ArgsPayload(Lookup(loaded.val, "arguments")), cause |-> ""]

\* What the LM backend writes.
TextDirect == <<"w", " ", "w">>
TextAction(tool, arg) ==
    <<"w", " ", "{", "name", ":", tool, ",", " ", "arguments", ":", " ",
      "{", arg, ":", "Virginia", "}", " ", "}", " ", "w">>
TextCompactAction ==
    <<"{", "name", ":", "get_weather", ",", "arguments", ":",
      "{", "location", ":", "Virginia", "}", "}">>
TextMalformed == <<"w", "{", "w", "}">>
TextStringArguments ==
    <<"{", "name", ":", "get_weather", ",", "arguments", ":", "Virginia", "}">>

Texts ==
    {TextDirect, TextAction("get_weather", "location"), TextAction("jump", "distance"),
     TextAction("jump", "location"), TextCompactAction, TextMalformed, TextStringArguments}

\* ------------------------------------------------------------- Agent (text prompt)
\* The Agent that selects tools through the prompt: run(task) with
\* parse_response over the LM text.
InitText == Init

\* messages_to_string: "Role: content" per message of memory
RECURSIVE messages_to_string(_)
messages_to_string(messages) ==
    IF messages = << >> THEN << >>
    ELSE <<Head(messages).role>> \o Head(messages).content
           \o messages_to_string(Tail(messages))

\* prompt_template.format_prompt(chat_history=..., user_input=task), sent as
\* one user message
PromptMessages(messages, task) ==
    <<[role |-> "user",
       content |-> SystemMessage.content \o messages_to_string(messages) \o task,
       tool_calls |-> NoCalls, tool_call_id |-> 0, name |-> ""]>>

\* return execution_results
ReturnExecutionResults(results) ==
    [op |-> "run", kind |-> "return_execution_results",
     value |-> <<ResultValue(results)>>, error |-> NoError]

\* An exception that leaves run: from parse_response, from executor.execute
\* or from memory.add_messages.
RunRaises(tool_name, cause) ==
    [op |-> "run", kind |-> "raise", value |-> << >>,
     error |-> [tool |-> tool_name, id |-> 0, cause |-> cause]]

\* run(task): self.memory.add_message({"role": "user", "content": task})
TextRunStart ==
    /\ pc = "idle"
    /\ runs < MaxRuns
    /\ \E q \in Questions :
         /\ user_message' = UserMessage(q)
         /\ memory' = add_message(memory, UserMessage(q))
    /\ pc' = "text_loop"
    /\ iter' = 0
    /\ lmCalls' = 0
    /\ invoked' = << >>
    /\ attempted' = << >>
    /\ validated' = << >>
    /\ runTurns' = << >>
    /\ response' = NoResponse
    /\ outcome' = Running
    /\ runs' = runs + 1
    /\ UNCHANGED <<descriptor, toolLog, heap, agents, actLog, handles, memLog, tools, tool_history, max_iterations, idx, chat_history, nextId, regLog, execLog, extracted, action_dict, react_loop>>

\* response = self.llm_client.generate(messages=messages)
TextLMCall ==
    /\ pc = "text_loop"
    /\ BudgetLeft
    /\ chat_history' = PromptMessages(get_messages(memory), user_message.content)
    /\ \E text \in Texts : response' = AssistantMessage(text, NoCalls)
    /\ lmCalls' = lmCalls + 1
    /\ iter' = iter + 1
    /\ pc' = "text_parse"
    /\ UNCHANGED <<descriptor, toolLog, heap, agents, actLog, handles, memLog, tools, memory, tool_history, max_iterations, idx, user_message,
                   outcome, invoked, attempted, validated, runTurns, nextId, runs, regLog, execLog, extracted, action_dict, react_loop>>

\* The for loop ends and run has no statement after it.
TextLoopExit ==
    /\ pc = "text_loop"
    /\ ~BudgetLeft
    /\ pc' = "idle"
    /\ outcome' = ReturnNone
    /\ UNCHANGED <<descriptor, toolLog, heap, agents, actLog, handles, memLog, tools, memory, tool_history, max_iterations, iter, response, idx,
                   chat_history, user_message, lmCalls, invoked, attempted, validated, runTurns,
                   nextId, runs, regLog, execLog, extracted, action_dict, react_loop>>

\* action_dict = self.parse_response(response) and the branch taken on it:
\* the tool is executed and its result returned, or the direct answer is
\* handed to memory.add_messages by keyword, which that method does not take.
TextInterpret ==
    /\ pc = "text_parse"
    /\ LET parsed == parse_response(response.content) IN
       /\ action_dict' = parsed
       /\ \/ /\ parsed.kind = "raise"
             /\ outcome' = RunRaises("", parsed.cause)
             /\ UNCHANGED <<attempted, invoked, validated>>
          \/ /\ parsed.kind = "action"
             /\ \E behaviour \in {"return", "raise"} :
                  LET status == ExecuteStatus(tools, parsed.name,
                                              parsed.args_json, behaviour) IN
                    /\ attempted' = Append(attempted, lmCalls)
                    /\ validated' = IF ExecuteValidates(status) THEN Append(validated, lmCalls)
                                    ELSE validated
                    /\ invoked' = IF ExecuteInvokes(status) THEN Append(invoked, lmCalls)
                                  ELSE invoked
                    /\ outcome' =
                         IF status = "ok"
                         THEN ReturnExecutionResults(
                                  ToolOutput(tools[parsed.name], parsed.args_json))
                         ELSE RunRaises(parsed.name, status)
          \/ /\ parsed.kind = "none"
             /\ outcome' = RunRaises("", "TypeError: add_messages() got an unexpected keyword argument")
             /\ UNCHANGED <<attempted, invoked, validated>>
    /\ pc' = "idle"
    /\ UNCHANGED <<descriptor, toolLog, heap, agents, actLog, handles, memLog, tools, memory, tool_history, max_iterations, iter, response, idx,
                   chat_history, user_message, lmCalls, runTurns, nextId, runs, regLog, execLog, extracted,
                   react_loop>>

NextText ==
    \/ TextRunStart
    \/ TextLMCall
    \/ TextLoopExit
    \/ TextInterpret

SpecText == InitText /\ [][NextText]_vars

\* C8: run does not come back to the caller after executing a requested
\* tool: it goes on to the next iteration, and returns only with a final
\* answer, at budget exhaustion (after max_iterations LM calls) or by raising.
C8_RunEndsOnlyFinalBudgetOrError ==
    RunEnded =>
        /\ outcome.kind \in {"return_response", "return_None", "raise"}
        /\ outcome.kind = "return_None" => lmCalls = max_iterations

\* ------------------------------------------------------------- JSON extractor
\* parse_nested_json(text): the first balanced span of the normalized text as
\* a JSON value; None when there is no span and when json.loads fails on it.
parse_nested_json(text) ==
    LET normalized == SingleBraces(Unescape(text))
        match == Search(normalized)
    IN  IF match.start = 0 THEN NoJson
        ELSE LET loaded == json_loads(SubSeq(normalized, match.start, match.end)) IN
             IF loaded.ok THEN [kind |-> "json", val |-> loaded.val] ELSE NoJson

\* Arbitrary texts: every sequence of at most MaxTextLen lexemes among the
\* braces, a word of prose, a JSON string and a colon.
Lexemes == {"{", "}", "w", "k", ":"}
BraceTexts == UNION {[1..n -> Lexemes] : n \in 0..MaxTextLen}

\* Action objects as the LM writes them: {"name": name, "arguments": args},
\* gap being what stands between the arguments and the closing brace.
StringArgs == <<"Roberto">>
FlatArgs == <<"{", "person", ":", "Roberto", "}">>
DeepArgs == <<"{", "a", ":", "{", "b", ":", "c", "}", "}">>
ArgTexts == {StringArgs, FlatArgs, DeepArgs}
Gaps == {<< >>, <<" ">>, <<"\\", "n">>}
Obj(name, args, gap) ==
    <<"{", "name", ":", name, ",", "arguments", ":">> \o args \o gap \o <<"}">>
ObjectTexts == {Obj("greet", a, g) : a \in ArgTexts, g \in Gaps}

\* The same object written with doubled outermost braces.
Doubled(body) == <<"{">> \o body \o <<"}">>
\* Prose, or the opening of a fenced block, before the object; prose after it.
Prefixes == {<< >>, <<"w", " ">>, <<"w", "\\", "n">>}
Suffixes == {<< >>, <<" ", "w">>}
Wrapped(p, body, s) == p \o body \o s

ExtractInputs ==
    BraceTexts
      \cup {Wrapped(p, b, s) : p \in Prefixes, b \in ObjectTexts, s \in Suffixes}
      \cup {Wrapped(p, Doubled(b), s) : p \in Prefixes, b \in ObjectTexts, s \in Suffixes}

\* A text is handed to the extractor and to the interpreter.
InitExtract ==
    /\ tools = EmptyRegistry
    /\ memory = << >>
    /\ tool_history = << >>
    /\ max_iterations = 0
    /\ pc = "text"
    /\ iter = 0
    /\ response \in {AssistantMessage(t, NoCalls) : t \in ExtractInputs}
    /\ idx = 1
    /\ chat_history = << >>
    /\ user_message = NoResponse
    /\ outcome = NoOutcome
    /\ lmCalls = 0
    /\ invoked = << >>
    /\ attempted = << >>
    /\ validated = << >>
    /\ runTurns = << >>
    /\ nextId = 1
    /\ runs = 0
    /\ regLog = << >>
    /\ execLog = << >>
    /\ extracted = NoJson
    /\ action_dict = NoAction
    /\ react_loop = << >>
    /\ handles = << >>
    /\ memLog = << >>
    /\ descriptor = NoTool
    /\ toolLog = << >>
    /\ heap = << >>
    /\ agents = << >>
    /\ actLog = << >>

\* parse_nested_json(text)
ParseNestedJson ==
    /\ pc \in {"text", "interpreted"}
    /\ extracted' = parse_nested_json(response.content)
    /\ pc' = IF pc = "text" THEN "extracted" ELSE "both"
    /\ UNCHANGED <<descriptor, toolLog, heap, agents, actLog, handles, memLog, tools, memory, tool_history, max_iterations, iter, response, idx,
                   chat_history, user_message, outcome, lmCalls, invoked, attempted,
                   validated, runTurns, nextId, runs, regLog, execLog, action_dict,
                   react_loop>>

\* self.parse_response(response)
ParseResponse ==
    /\ pc \in {"text", "extracted"}
    /\ action_dict' = parse_response(response.content)
    /\ pc' = IF pc = "text" THEN "interpreted" ELSE "both"
    /\ UNCHANGED <<descriptor, toolLog, heap, agents, actLog, handles, memLog, tools, memory, tool_history, max_iterations, iter, response, idx,
                   chat_history, user_message, outcome, lmCalls, invoked, attempted,
                   validated, runTurns, nextId, runs, regLog, execLog, extracted,
                   react_loop>>

NextExtract ==
    \/ ParseNestedJson
    \/ ParseResponse

SpecExtract == InitExtract /\ [][NextExtract]_vars

\* parse_nested_json, respectively parse_response, was applied to the text.
Extracted == pc \in {"extracted", "both"}
Interpreted == pc \in {"interpreted", "both"}

\* The value {"name": name, "arguments": args}.
ActionValue(name, args) ==
    JsonObject(<<[key |-> "name", val |-> JsonString(name)],
                 [key |-> "arguments", val |-> args]>>)
PersonRoberto == JsonObject(<<[key |-> "person", val |-> JsonString("Roberto")]>>)

\* The text is prose around {"name":"greet","arguments":{"person":"Roberto"}}.
CompactNestedInProse ==
    \E p \in Prefixes, s \in Suffixes :
       response.content = Wrapped(p, Obj("greet", FlatArgs, << >>), s)

\* C14: from prose around a compact object whose "arguments" value is an
\* object, the closing braces adjacent, the extractor returns the whole
\* outer object with its name and its nested arguments.
C14_CompactNestedObjectExtracted ==
    CompactNestedInProse =>
       /\ Extracted =>
             extracted = [kind |-> "json", val |-> ActionValue("greet", PersonRoberto)]
       /\ Interpreted =>
             /\ action_dict.kind = "action"
             /\ action_dict.name = "greet"
             /\ action_dict.args_json = <<"person">>

\* C15: an action object written with doubled outermost braces, alone, in
\* prose or in a fenced block, is reduced to single braces: the extractor
\* returns for it what it returns for the single-brace form of that text.
C15_DoubledBracesSameAsSingle ==
    Extracted =>
       \A p \in Prefixes, b \in ObjectTexts, s \in Suffixes :
          response.content = Wrapped(p, Doubled(b), s) =>
             extracted = parse_nested_json(Wrapped(p, b, s))

\* The normalized text has a balanced span that json.loads rejects.
SpanNotJson(text) ==
    LET normalized == SingleBraces(Unescape(text))
        match == Search(normalized)
    IN  /\ match.start # 0
        /\ ~json_loads(SubSeq(normalized, match.start, match.end)).ok

\* C17: when the text has a balanced span that does not parse as JSON, the
\* interpreter fails with the malformed-action error and never answers
\* 'no action' for that text.
C17_MalformedSpanIsAnError ==
    SpanNotJson(response.content) =>
       /\ Interpreted =>
             /\ action_dict.kind = "raise"
             /\ action_dict.cause = "ValueError: Invalid JSON in action content"
       /\ Extracted => extracted # NoJson

\* ------------------------------------------------------------- Agent (ReAct)
\* The Agent whose run(task) keeps a react_loop of thoughts and observations
\* and writes memory with the final answer.
InitReAct == Init

\* str.lower() on the lexemes that have capitals
Lower(x) ==
    CASE x = "Final Answer:" -> "final answer:"
      [] x = "It is 70F" -> "it is 70f"
      [] x = "Virginia" -> "virginia"
      [] OTHER -> x
LowerText(text) == [i \in DOMAIN text |-> Lower(text[i])]

\* 'final answer' in str(message_content).lower()
HasFinalAnswer(text) == \E i \in DOMAIN text : LowerText(text)[i] = "final answer:"

\* str.strip(): white space removed at both ends
RECURSIVE Strip(_)
Strip(text) ==
    IF text = << >> THEN text
    ELSE IF Head(text) \in WhiteSpace THEN Strip(Tail(text))
    ELSE IF text[Len(text)] \in WhiteSpace THEN Strip(SubSeq(text, 1, Len(text) - 1))
    ELSE text

\* str(message_content).lower().split("final answer:")[-1].strip()
final_message(text) ==
    LET low == LowerText(text)
        marks == {i \in DOMAIN low : low[i] = "final answer:"}
        last == CHOOSE i \in marks : \A j \in marks : j <= i
    IN  Strip(SubSeq(low, last + 1, Len(low)))

\* The response run hands to memory and to the caller when no action was found.
FinalResponse(r) ==
    IF HasFinalAnswer(r.content) THEN AssistantMessage(final_message(r.content), NoCalls)
    ELSE r

\* The ReAct template (module ReAct_Template): the system message, the chat
\* history, the task and the context of the run, in that order.
STRING_PROMPT_TEMPLATE(system_message, chat_history_text, user_input, loop) ==
    system_message \o chat_history_text \o user_input \o loop

\* format_prompt(chat_history=..., user_input=task, react_loop=...), sent as
\* one user message
ReActPrompt(messages, task, loop) ==
    <<[role |-> "user",
       content |-> STRING_PROMPT_TEMPLATE(SystemMessage.content,
                                          messages_to_string(messages), task, loop),
       tool_calls |-> NoCalls, tool_call_id |-> 0, name |-> ""]>>

\* A context that keeps the observation and drops the thought/action text.
ObservationOnly(text, results) == <<"Observation:">> \o results

\* current_thought + current_observation
ThoughtAndObservation(text, results) == text \o <<"Observation:">> \o results

\* What the LM backend writes in the ReAct loop.
ActionObject(tool, arg) ==
    <<"{", "name", ":", tool, ",", " ", "arguments", ":", " ",
      "{", arg, ":", "Virginia", "}", " ", "}">>
ReActFinal == <<"w", " ", "Final Answer:", " ", "It is 70F", " ">>
ReActFinalWithAction ==
    <<"Final Answer:", " ", "It is 70F", " ">> \o ActionObject("get_weather", "location")
ReActTwoActions ==
    <<"w", " ">> \o ActionObject("get_weather", "location") \o <<" ">>
                \o ActionObject("jump", "distance")
ReActUnclosed == <<"w", " ", "{", "w">>
ReActTexts ==
    {TextDirect, ReActFinal, ReActFinalWithAction, ReActTwoActions, ReActUnclosed,
     TextMalformed, TextAction("get_weather", "location"), TextAction("jump", "location")}

\* run(task): chat_history = self.messages_to_string(); react_loop = ""
ReActRunStart ==
    /\ pc = "idle"
    /\ runs < MaxRuns
    /\ \E q \in Questions : user_message' = UserMessage(q)
    /\ react_loop' = << >>
    /\ pc' = "react_loop"
    /\ iter' = 0
    /\ lmCalls' = 0
    /\ invoked' = << >>
    /\ attempted' = << >>
    /\ validated' = << >>
    /\ runTurns' = << >>
    /\ response' = NoResponse
    /\ outcome' = Running
    /\ runs' = runs + 1
    /\ UNCHANGED <<descriptor, toolLog, heap, agents, actLog, handles, memLog, tools, memory, tool_history, max_iterations, idx, chat_history, nextId,
                   regLog, execLog, extracted, action_dict>>

\* response = self.llm_client.generate(messages=messages, stop=[...])
ReActLMCall ==
    /\ pc = "react_loop"
    /\ BudgetLeft
    /\ chat_history' = ReActPrompt(get_messages(memory), user_message.content, react_loop)
    /\ \E text \in ReActTexts : response' = AssistantMessage(text, NoCalls)
    /\ lmCalls' = lmCalls + 1
    /\ iter' = iter + 1
    /\ pc' = "react_parse"
    /\ UNCHANGED <<descriptor, toolLog, heap, agents, actLog, handles, memLog, tools, memory, tool_history, max_iterations, idx, user_message,
                   outcome, invoked, attempted, validated, runTurns, nextId, runs,
                   regLog, execLog, extracted, action_dict, react_loop>>

\* The for loop ends and run has no statement after it.
ReActLoopExit ==
    /\ pc = "react_loop"
    /\ ~BudgetLeft
    /\ pc' = "idle"
    /\ outcome' = ReturnNone
    /\ UNCHANGED <<descriptor, toolLog, heap, agents, actLog, handles, memLog, tools, memory, tool_history, max_iterations, iter, response, idx,
                   chat_history, user_message, lmCalls, invoked, attempted, validated,
                   runTurns, nextId, runs, regLog, execLog, extracted, action_dict,
                   react_loop>>

\* action_dict = self.parse_response(response) raises
ReActParseRaises ==
    /\ pc = "react_parse"
    /\ action_dict' = parse_response(response.content)
    /\ action_dict'.kind = "raise"
    /\ outcome' = RunRaises("", action_dict'.cause)
    /\ pc' = "idle"
    /\ UNCHANGED <<descriptor, toolLog, heap, agents, actLog, handles, memLog, tools, memory, tool_history, max_iterations, iter, response, idx,
                   chat_history, user_message, lmCalls, invoked, attempted, validated,
                   runTurns, nextId, runs, regLog, execLog, extracted, react_loop>>

\* if action_dict: execute the action and add thought and observation to
\* react_loop; an exception of executor.execute leaves run.
ReActExecute ==
    /\ pc = "react_parse"
    /\ action_dict' = parse_response(response.content)
    /\ action_dict'.kind = "action"
    /\ \E behaviour \in {"return", "raise"} :
         LET status == ExecuteStatus(tools, action_dict'.name, action_dict'.args_json,
                                     behaviour) IN
           /\ attempted' = Append(attempted, lmCalls)
           /\ validated' = IF ExecuteValidates(status) THEN Append(validated, lmCalls)
                           ELSE validated
           /\ invoked' = IF ExecuteInvokes(status) THEN Append(invoked, lmCalls)
                         ELSE invoked
           /\ IF status = "ok"
              THEN /\ react_loop' = react_loop \o ThoughtAndObservation(
                                        response.content,
                                        ToolOutput(tools[action_dict'.name],
                                                   action_dict'.args_json))
                   /\ pc' = "react_loop"
                   /\ UNCHANGED outcome
              ELSE /\ outcome' = RunRaises(action_dict'.name, status)
                   /\ pc' = "idle"
                   /\ UNCHANGED react_loop
    /\ UNCHANGED <<descriptor, toolLog, heap, agents, actLog, handles, memLog, tools, memory, tool_history, max_iterations, iter, response, idx,
                   chat_history, user_message, lmCalls, runTurns, nextId, runs, regLog,
                   execLog, extracted>>

\* A final answer stored without the task that it answers.
ReActMemoryAnswerOnly == add_messages(memory, <<FinalResponse(response)>>)

\* self.memory.add_messages([{"role": "user", "content": task}, response])
ReActMemoryAfterFinal == add_messages(memory, <<user_message, FinalResponse(response)>>)

\* else: self.memory.add_messages([{"role": "user", "content": task}, response])
\* and return response
ReActFinalAnswer ==
    /\ pc = "react_parse"
    /\ action_dict' = parse_response(response.content)
    /\ action_dict'.kind = "none"
    /\ memory' = ReActMemoryAfterFinal
    /\ outcome' = ReturnResponse(FinalResponse(response))
    /\ pc' = "idle"
    /\ UNCHANGED <<descriptor, toolLog, heap, agents, actLog, handles, memLog, tools, tool_history, max_iterations, iter, response, idx,
                   chat_history, user_message, lmCalls, invoked, attempted, validated,
                   runTurns, nextId, runs, regLog, execLog, extracted, react_loop>>

NextReAct ==
    \/ ReActRunStart
    \/ ReActLMCall
    \/ ReActLoopExit
    \/ ReActParseRaises
    \/ ReActExecute
    \/ ReActFinalAnswer

SpecReAct == InitReAct /\ [][NextReAct]_vars

\* The LM turn of the latest LM call has been interpreted.
TurnInterpreted == pc \in {"idle", "react_loop"} /\ lmCalls > 0

\* No opening brace of the text has a closing brace after it.
NoBalancedSpan(text) ==
    ~\E i, j \in DOMAIN text : i < j /\ text[i] = "{" /\ text[j] = "}"

C18_FinalAnswerMarkerWins ==
    (TurnInterpreted /\ "Final Answer:" \in Range(response.content)) =>
       /\ pc = "idle"
       /\ outcome.kind = "return_response"
       /\ lmCalls \notin Range(attempted)

\* "Observation:" entries of the react_loop.
Observations(loop) == Occurrences(loop, "Observation:")

\* C19: at most one tool is executed per LM turn: of several JSON objects
\* in the text only the first is dispatched, and one observation is recorded
\* for the turn.
C19_OneActionPerTurn ==
    /\ [](\A k \in 1..lmCalls : Occurrences(attempted, k) <= 1)
    /\ []((TurnInterpreted /\ response.content = ReActTwoActions) =>
            /\ action_dict.kind = "action"
            /\ action_dict.name = "get_weather"
            /\ action_dict.args_json = <<"location">>
            /\ Last(attempted) = lmCalls
            /\ pc = "idle" => outcome.kind \in {"raise", "return_None"}
            /\ (pc = "idle" /\ outcome.kind = "raise") => outcome.error.tool = "get_weather")
    /\ [][pc = "react_parse" =>
            /\ Len(attempted') <= Len(attempted) + 1
            /\ Observations(react_loop') =
                  Observations(react_loop) + (IF pc' = "react_loop" THEN 1 ELSE 0)
            /\ (pc' = "react_loop" /\ response.content = ReActTwoActions) =>
                  react_loop' = react_loop \o response.content
                                  \o <<"Observation:", "get_weather", "location">>]_vars

C19_Witness ==
    /\ pc = "react_loop"
    /\ lmCalls = 1
    /\ response.content = ReActTwoActions
    /\ attempted = <<1>>
    /\ Observations(react_loop) = 1

\* The request of the latest LM call carries the turn: as a message, or
\* rendered as "Role: content" in the prompt.
RequestCarries(turn) ==
    \E i \in DOMAIN chat_history :
       \/ chat_history[i] = turn
       \/ LET c == chat_history[i].content
              r == <<turn.role>> \o turn.content
          IN  \E k \in 1..(Len(c) - Len(r) + 1) : SubSeq(c, k, k + Len(r) - 1) = r

\* C20: the user's request is appended to memory before the first LM call of
\* the run and the LM request is built from memory after that, so every run
\* started has its user turn in memory, whatever its outcome.
C20_UserTurnInMemoryFromStart ==
    /\ runs > 0 => CountRole(memory, "user") = runs
    /\ (runs > 0 /\ lmCalls > 0) => RequestCarries(user_message)

\* ------------------------------------------------------------- memory of the native run
\* C21: a native run that ends with a final answer leaves memory longer by
\* exactly two turns, the user message then the final assistant response,
\* whatever the number of tool iterations; tool-request and tool-result turns
\* never enter memory.
C21_MemoryGrowsByUserAndFinal ==
    /\ [](\A i \in DOMAIN memory :
             memory[i].role # "tool" /\ memory[i].tool_calls = NoCalls)
    /\ [][(pc = "idle" /\ pc' # "idle") =>
             /\ memory' = Append(memory, user_message')
             /\ user_message'.role = "user"]_vars
    /\ [][(pc # "idle" /\ pc' = "idle" /\ outcome'.kind = "return_response") =>
             /\ Last(memory) = user_message
             /\ memory' = Append(memory, outcome'.value[1])
             /\ outcome'.value[1].role = "assistant"]_vars
    /\ [][(pc # "idle" /\ ~(pc' = "idle" /\ outcome'.kind = "return_response")) =>
             memory' = memory]_vars

C21_Witness ==
    /\ RunEnded
    /\ runs = 2
    /\ outcome.kind = "return_response"
    /\ lmCalls = 2
    /\ Len(invoked) = 2
    /\ Len(memory) = 4
    /\ memory[3] = user_message
    /\ memory[4] = response

\* ------------------------------------------------------------- ChatMessageMemory
\* A list a caller holds: its items, and whether it is the very list object
\* that self.messages refers to.
SameListObject(messages) == [shared |-> TRUE, items |-> messages]

\* get_messages: self.messages.copy(), a list object of its own
CopiedList(messages) == [shared |-> FALSE, items |-> get_messages(messages)]

\* reset_memory: self.messages = [], a new list object
reset_memory(messages) == << >>

\* The turns handed to the memory, and the lists of them handed to add_messages.
MemoryTurns == {UserMessage("What is the weather in Virginia?"),
                AssistantMessage(FinalText, NoCalls)}
TurnLists == UNION {[1..n -> MemoryTurns] : n \in 0..2}

\* What a caller does to a list it holds.
Reverse(s) == [i \in DOMAIN s |-> s[Len(s) + 1 - i]]
CallerChange(kind, items, turn) ==
    CASE kind = "append" -> Append(items, turn)
      [] kind = "pop" -> SubSeq(items, 1, Len(items) - 1)
      [] kind = "reverse" -> Reverse(items)
      [] kind = "replace" -> [i \in DOMAIN items |-> IF i = 1 THEN turn ELSE items[i]]
CallerChanges == {"append", "pop", "reverse", "replace"}

\* A list object shared with self.messages sees what is done to self.messages
\* in place; after self.messages is rebound it is shared no longer.
HandlesAfter(hs, messages, rebound) ==
    [i \in DOMAIN hs |->
        IF ~hs[i].shared THEN hs[i]
        ELSE IF rebound THEN [shared |-> FALSE, items |-> hs[i].items]
        ELSE [shared |-> TRUE, items |-> messages]]

MemoryCall(op, turns, h) == [op |-> op, turns |-> turns, handle |-> h]

InitMemory ==
    /\ InitRegistry
    /\ pc = "idle"

\* memory.add_message(message)
AddMessage ==
    /\ Len(memLog) < MaxOps
    /\ \E turn \in MemoryTurns :
         /\ memory' = add_message(memory, turn)
         /\ memLog' = Append(memLog, MemoryCall("add_message", <<turn>>, 0))
    /\ handles' = HandlesAfter(handles, memory', FALSE)
    /\ UNCHANGED <<descriptor, toolLog, heap, agents, actLog, tools, tool_history, max_iterations, pc, iter, response, idx,
                   chat_history, user_message, outcome, lmCalls, invoked, attempted,
                   validated, runTurns, nextId, runs, regLog, execLog, extracted,
                   action_dict, react_loop>>

\* memory.add_messages(messages)
AddMessages ==
    /\ Len(memLog) < MaxOps
    /\ \E turns \in TurnLists :
         /\ memory' = add_messages(memory, turns)
         /\ memLog' = Append(memLog, MemoryCall("add_messages", turns, 0))
    /\ handles' = HandlesAfter(handles, memory', FALSE)
    /\ UNCHANGED <<descriptor, toolLog, heap, agents, actLog, tools, tool_history, max_iterations, pc, iter, response, idx,
                   chat_history, user_message, outcome, lmCalls, invoked, attempted,
                   validated, runTurns, nextId, runs, regLog, execLog, extracted,
                   action_dict, react_loop>>

\* memory.get_messages(): the caller keeps the list returned
GetMessages ==
    /\ Len(memLog) < MaxOps
    /\ handles' = Append(handles, CopiedList(memory))
    /\ memLog' = Append(memLog, MemoryCall("get_messages", << >>, Len(handles) + 1))
    /\ UNCHANGED <<descriptor, toolLog, heap, agents, actLog, tools, memory, tool_history, max_iterations, pc, iter, response, idx,
                   chat_history, user_message, outcome, lmCalls, invoked, attempted,
                   validated, runTurns, nextId, runs, regLog, execLog, extracted,
                   action_dict, react_loop>>

\* memory.reset_memory()
ResetMemory ==
    /\ Len(memLog) < MaxOps
    /\ memory' = reset_memory(memory)
    /\ handles' = HandlesAfter(handles, memory', TRUE)
    /\ memLog' = Append(memLog, MemoryCall("reset_memory", << >>, 0))
    /\ UNCHANGED <<descriptor, toolLog, heap, agents, actLog, tools, tool_history, max_iterations, pc, iter, response, idx,
                   chat_history, user_message, outcome, lmCalls, invoked, attempted,
                   validated, runTurns, nextId, runs, regLog, execLog, extracted,
                   action_dict, react_loop>>

\* A caller appends to, pops from, reverses or replaces an element of a list
\* that get_messages returned to it.
CallerChangesList ==
    /\ Len(memLog) < MaxOps
    /\ \E h \in DOMAIN handles, kind \in CallerChanges, turn \in MemoryTurns :
         /\ kind \in {"pop", "replace"} => handles[h].items # << >>
         /\ LET items == CallerChange(kind, handles[h].items, turn) IN
              /\ handles' = [i \in DOMAIN handles |->
                               IF i = h \/ (handles[h].shared /\ handles[i].shared)
                               THEN [shared |-> handles[i].shared, items |-> items]
                               ELSE handles[i]]
              /\ memory' = IF handles[h].shared THEN items ELSE memory
         /\ memLog' = Append(memLog, MemoryCall(kind, <<turn>>, h))
    /\ UNCHANGED <<descriptor, toolLog, heap, agents, actLog, tools, tool_history, max_iterations, pc, iter, response, idx,
                   chat_history, user_message, outcome, lmCalls, invoked, attempted,
                   validated, runTurns, nextId, runs, regLog, execLog, extracted,
                   action_dict, react_loop>>

NextMemory ==
    \/ AddMessage
    \/ AddMessages
    \/ GetMessages
    \/ ResetMemory
    \/ CallerChangesList

SpecMemory == InitMemory /\ [][NextMemory]_vars

\* The latest call, and whether it was made on a list a caller holds.
LastCall == Last(memLog)
IsCallerChange(call) == call.op \in CallerChanges

\* C22: get_messages returns a copy: appending to the returned list, removing
\* from it, reordering it or replacing an element of it changes neither the
\* memory's own sequence nor what a later get_messages returns.
C22_ReturnedListIsACopy ==
    /\ [][(Len(memLog') > Len(memLog) /\ IsCallerChange(Last(memLog'))) =>
             /\ memory' = memory
             /\ \A i \in DOMAIN handles :
                   i # Last(memLog').handle => handles'[i] = handles[i]]_vars
    /\ [][(Len(memLog') > Len(memLog) /\ Last(memLog').op = "get_messages") =>
             /\ Last(handles').items = memory
             /\ memory' = memory
             /\ \A i \in DOMAIN handles : handles'[i] = handles[i]]_vars

C22_Witness ==
    /\ Len(memLog) = 3
    /\ memLog[1].op = "add_message"
    /\ memLog[2].op = "get_messages"
    /\ memLog[3].op = "append"
    /\ memory = memLog[1].turns
    /\ Len(handles[1].items) = 2

\* The turns handed to add_message and add_messages since the last
\* reset_memory, in call order.
RECURSIVE AddedSinceReset(_)
AddedSinceReset(log) ==
    IF log = << >> THEN << >>
    ELSE LET call == log[Len(log)]
             before == AddedSinceReset(SubSeq(log, 1, Len(log) - 1))
         IN  CASE call.op = "reset_memory" -> << >>
               [] call.op \in {"add_message", "add_messages"} -> before \o call.turns
               [] OTHER -> before

IsPrefix(s, t) == Len(s) <= Len(t) /\ SubSeq(t, 1, Len(s)) = s

\* C23: memory is an append-only ordered log: get_messages returns exactly
\* the turns added since the last reset, in insertion order, add_messages
\* adding its turns in the given order; a turn once added is not removed,
\* moved or replaced, and reset_memory empties the log.
C23_AppendOnlyOrderedLog ==
    /\ [](memory = AddedSinceReset(memLog))
    /\ []((memLog # << >> /\ LastCall.op = "get_messages") =>
             Last(handles).items = AddedSinceReset(memLog))
    /\ [][(Len(memLog') > Len(memLog)) =>
             IF Last(memLog').op = "reset_memory" THEN memory' = << >>
             ELSE IsPrefix(memory, memory')]_vars

C23_Witness ==
    /\ Len(memLog) = 3
    /\ memLog[1].op = "add_messages" /\ Len(memLog[1].turns) = 2
    /\ memLog[1].turns[1] # memLog[1].turns[2]
    /\ memLog[2].op = "add_message"
    /\ memLog[3].op = "get_messages"
    /\ handles[1].items = memLog[1].turns \o memLog[2].turns

\* ------------------------------------------------------------- two Agent instances
\* The list and dict objects are kept in a heap; an Agent's fields refer to
\* them by position.
\* A constructor that hands out an object that exists already (a class
\* attribute or a mutable default in place of a new object).
AllocateShared(h, kind) ==
    IF \E i \in DOMAIN h : h[i].kind = kind
    THEN CHOOSE i \in DOMAIN h : h[i].kind = kind /\ \A j \in 1..(i - 1) : h[j].kind # kind
    ELSE Len(h) + 1

\* [], {} and the constructors: a new object
Allocate(h, kind) == Len(h) + 1

NewObject(h, kind, value) ==
    LET id == Allocate(h, kind) IN
    [heap |-> IF id > Len(h) THEN Append(h, [kind |-> kind, value |-> value]) ELSE h,
     id |-> id]

\* Agent.__init__: self.executor = AgentToolExecutor(), self.memory =
\* ChatMessageMemory(), self.tool_history = [], then the tools registered.
ConstructAgent(state, toollist) ==
    LET e == NewObject(state.heap, "dict", EmptyRegistry)
        m == NewObject(e.heap, "list", << >>)
        t == NewObject(m.heap, "list", << >>)
    IN  [heap |-> [t.heap EXCEPT ![e.id].value = RegisterAll(@, toollist)],
         agents |-> Append(state.agents,
                           [executor |-> e.id, memory |-> m.id, tool_history |-> t.id,
                            pc |-> "idle", iter |-> 0])]

TwoAgents ==
    ConstructAgent(ConstructAgent([heap |-> << >>, agents |-> << >>], <<GetWeather>>),
                   <<GetWeather>>)

InitAgents ==
    /\ heap = TwoAgents.heap
    /\ agents = TwoAgents.agents
    /\ actLog = << >>
    /\ tools = EmptyRegistry
    /\ memory = << >>
    /\ tool_history = << >>
    /\ max_iterations = MaxIter
    /\ pc = "idle"
    /\ iter = 0
    /\ response = NoResponse
    /\ idx = 1
    /\ chat_history = << >>
    /\ user_message = NoResponse
    /\ outcome = NoOutcome
    /\ lmCalls = 0
    /\ invoked = << >>
    /\ attempted = << >>
    /\ validated = << >>
    /\ runTurns = << >>
    /\ nextId = 1
    /\ runs = 0
    /\ regLog = << >>
    /\ execLog = << >>
    /\ extracted = NoJson
    /\ action_dict = NoAction
    /\ react_loop = << >>
    /\ handles = << >>
    /\ memLog = << >>
    /\ descriptor = NoTool
    /\ toolLog = << >>

\* What an agent's fields hold.
MemoryOf(h, ag, a) == h[ag[a].memory].value
ToolHistoryOf(h, ag, a) == h[ag[a].tool_history].value
RegistryOf(h, ag, a) == h[ag[a].executor].value

AgentIds == {1, 2}
Acts(a, op) == Append(actLog, [agent |-> a, op |-> op])

\* agent.run(user_message) begins: self.memory.add_message(user_message)
AgentRunStart(a) ==
    /\ agents[a].pc = "idle"
    /\ heap' = [heap EXCEPT ![agents[a].memory].value =
                   add_message(@, UserMessage("What is the weather in Virginia?"))]
    /\ agents' = [agents EXCEPT ![a].pc = "running", ![a].iter = 0]
    /\ actLog' = Acts(a, "run")

\* One pass of the loop in which the LM requests one tool: parse_response
\* appends the response, executes the tool and appends its result, or raises.
AgentToolIteration(a) ==
    /\ agents[a].pc = "running"
    /\ agents[a].iter < max_iterations
    /\ \E name \in ToolNames, payload \in Payloads, behaviour \in {"return", "raise"} :
         LET call == [id |-> Len(actLog) + 1, name |-> name, arguments |-> payload]
             request == AssistantMessage(<< >>, <<call>>)
             status == ExecuteStatus(RegistryOf(heap, agents, a), name, payload, behaviour)
         IN  IF status = "ok"
             THEN /\ heap' = [heap EXCEPT ![agents[a].tool_history].value =
                                 @ \o <<request,
                                        ToolMessage(call, ToolOutput(
                                            RegistryOf(heap, agents, a)[name], payload))>>]
                  /\ agents' = [agents EXCEPT ![a].iter = @ + 1]
                  /\ actLog' = Acts(a, "tool")
             ELSE /\ heap' = [heap EXCEPT ![agents[a].tool_history].value =
                                 Append(@, request)]
                  /\ agents' = [agents EXCEPT ![a].pc = "idle"]
                  /\ actLog' = Acts(a, "tool_failure")

\* The final answer: self.memory.add_message(response); self.tool_history = []
AgentFinalAnswer(a) ==
    /\ agents[a].pc = "running"
    /\ agents[a].iter < max_iterations
    /\ LET answered == [heap EXCEPT ![agents[a].memory].value =
                           add_message(@, AssistantMessage(FinalText, NoCalls))]
           t == NewObject(answered, "list", << >>)
       IN  /\ heap' = t.heap
           /\ agents' = [agents EXCEPT ![a].pc = "idle", ![a].tool_history = t.id]
    /\ actLog' = Acts(a, "final_answer")

\* The loop ends with the budget used up.
AgentBudgetExhausted(a) ==
    /\ agents[a].pc = "running"
    /\ agents[a].iter >= max_iterations
    /\ agents' = [agents EXCEPT ![a].pc = "idle"]
    /\ actLog' = Acts(a, "budget_exhausted")
    /\ UNCHANGED heap

\* agent.executor.register_tool(tool)
AgentRegisterTool(a) ==
    /\ agents[a].pc = "idle"
    /\ \E tool \in ToolDescs :
         heap' = [heap EXCEPT ![agents[a].executor].value = RegisterResult(@, tool)]
    /\ actLog' = Acts(a, "register_tool")
    /\ UNCHANGED agents

\* agent.memory.reset_memory(): self.messages = []
AgentResetMemory(a) ==
    /\ agents[a].pc = "idle"
    /\ LET m == NewObject(heap, "list", reset_memory(MemoryOf(heap, agents, a))) IN
         /\ heap' = m.heap
         /\ agents' = [agents EXCEPT ![a].memory = m.id]
    /\ actLog' = Acts(a, "reset_memory")

AgentStep(a) ==
    /\ Len(actLog) < MaxOps + 1
    /\ \/ AgentRunStart(a)
       \/ AgentToolIteration(a)
       \/ AgentFinalAnswer(a)
       \/ AgentBudgetExhausted(a)
       \/ AgentRegisterTool(a)
       \/ AgentResetMemory(a)
    /\ UNCHANGED <<descriptor, toolLog, handles, memLog, tools, memory, tool_history, max_iterations, pc, iter,
                   response, idx, chat_history, user_message, outcome, lmCalls, invoked,
                   attempted, validated, runTurns, nextId, runs, regLog, execLog,
                   extracted, action_dict, react_loop>>

NextAgents == \E a \in AgentIds : AgentStep(a)

SpecAgents == InitAgents /\ [][NextAgents]_vars

\* C24: two Agent instances share no mutable state: a run, a registration,
\* a tool failure or a memory reset on one agent leaves the other agent's
\* memory, tool history and registry as they were.
C24_AgentsShareNoState ==
    [][Len(actLog') > Len(actLog) =>
         \A b \in AgentIds \ {Last(actLog').agent} :
            /\ MemoryOf(heap', agents', b) = MemoryOf(heap, agents, b)
            /\ ToolHistoryOf(heap', agents', b) = ToolHistoryOf(heap, agents, b)
            /\ RegistryOf(heap', agents', b) = RegistryOf(heap, agents, b)]_vars

C24_Witness ==
    /\ Len(actLog) = 4
    /\ actLog[1] = [agent |-> 2, op |-> "run"]
    /\ actLog[2] = [agent |-> 1, op |-> "register_tool"]
    /\ actLog[3] = [agent |-> 1, op |-> "run"]
    /\ actLog[4] = [agent |-> 1, op |-> "tool_failure"]
    /\ Len(MemoryOf(heap, agents, 2)) = 1
    /\ ToolHistoryOf(heap, agents, 2) = << >>
    /\ Len(ToolHistoryOf(heap, agents, 1)) = 1
    /\ DOMAIN RegistryOf(heap, agents, 1) = {"get_weather", "jump"}
    /\ DOMAIN RegistryOf(heap, agents, 2) = {"get_weather"}

\* ------------------------------------------------------------- order of LM calls and tools
\* The invocation ids of the tool-result turns of a context.
AnsweredIds(turns) == {turns[i].tool_call_id : i \in {j \in DOMAIN turns : turns[j].role = "tool"}}

\* C25: one LM call at a time, never during tool execution: the next LM
\* call of a run is made only after every invocation the previous assistant
\* turn requested has completed and its result is in the context sent.
C25_LMCallAfterAllToolResults ==
    [][lmCalls' = lmCalls + 1 =>
         /\ pc = "loop" /\ pc' = "parse"
         /\ lmCalls > 0 =>
              /\ RequestsTools(response)
              /\ \A i \in DOMAIN response.tool_calls :
                    /\ response.tool_calls[i].id \in Range(invoked)
                    /\ response.tool_calls[i].id \in AnsweredIds(chat_history')
              /\ \E k \in DOMAIN chat_history' : chat_history'[k] = response]_vars

C25_Witness ==
    /\ pc = "parse"
    /\ runs = 1
    /\ lmCalls = 2
    /\ Len(invoked) = 2
    /\ Cardinality(AnsweredIds(chat_history)) = 2

\* ------------------------------------------------------------- AgentTool
\* check_docstring: raises when func.__doc__ is empty or None
check_docstring_raises(func) == func.doc = ""

\* The functions and args models handed to the constructors.
CallableInputs ==
    {Callable("get_weather", doc) : doc \in {"", "Gets weather information."}}
SchemaInputs ==
    {Schema("GetWeatherSchema", doc, properties, {"location"}) :
        doc \in {"", "Get weather information based on location."},
        properties \in {{"location"}, {"location", "units"}}}
\* The argument names of the payloads handed to validate_json_args and run.
ToolPayloads ==
    {<< >>, <<"location">>, <<"units">>, <<"location", "units">>, <<"location", "zip">>}

\* A descriptor whose schema dict is kept and popped from in place.
DescriptorSchemaPopped(tool) == [tool EXCEPT !.title = "", !.schema_description = ""]

\* The descriptor after args_schema or to_openai_function_call_definition:
\* model_json_schema() builds a new dict on each call, the pops work on it.
DescriptorAfterSchemaCall(tool) == tool

\* AgentTool.to_openai_function_call_definition
to_openai_function_call_definition(tool) ==
    [type |-> "function", name |-> tool.name,
     description |-> args_schema(tool).description,
     parameters |-> [properties |-> args_schema(tool).properties,
                     required |-> args_schema(tool).required]]

NoDefinition ==
    [type |-> "", name |-> "", description |-> "",
     parameters |-> [properties |-> {}, required |-> {}]]
ToolCall(op, payload, ok, value, definition) ==
    [op |-> op, payload |-> payload, ok |-> ok, value |-> value, definition |-> definition]

InitTool ==
    /\ InitRegistry
    /\ pc = "idle"
    /\ descriptor = NoTool

\* @Tool(args_model=...) on a function: check_docstring, then AgentTool(...)
ConstructByDecorator ==
    /\ descriptor = NoTool /\ outcome = NoOutcome
    /\ \E func \in CallableInputs, args_model \in SchemaInputs :
         IF check_docstring_raises(func)
         THEN /\ outcome' = [op |-> "Tool", kind |-> "raise", value |-> << >>,
                             error |-> [tool |-> func.name, id |-> 0,
                                        cause |-> "must have a docstring"]]
              /\ UNCHANGED descriptor
         ELSE /\ descriptor' = AgentToolInit(func, args_model)
              /\ outcome' = [op |-> "Tool", kind |-> "return_tool", value |-> << >>,
                             error |-> NoError]
    /\ UNCHANGED <<toolLog, heap, agents, actLog, handles, memLog, tools, memory,
                   tool_history, max_iterations, pc, iter, response, idx, chat_history,
                   user_message, lmCalls, invoked, attempted, validated, runTurns,
                   nextId, runs, regLog, execLog, extracted, action_dict, react_loop>>

\* AgentTool(func, args_model)
ConstructByInit ==
    /\ descriptor = NoTool /\ outcome = NoOutcome
    /\ \E func \in CallableInputs, args_model \in SchemaInputs :
         descriptor' = AgentToolInit(func, args_model)
    /\ outcome' = [op |-> "AgentTool", kind |-> "return_tool", value |-> << >>,
                   error |-> NoError]
    /\ UNCHANGED <<toolLog, heap, agents, actLog, handles, memLog, tools, memory,
                   tool_history, max_iterations, pc, iter, response, idx, chat_history,
                   user_message, lmCalls, invoked, attempted, validated, runTurns,
                   nextId, runs, regLog, execLog, extracted, action_dict, react_loop>>

\* tool.to_openai_function_call_definition()
CallDefinition ==
    /\ descriptor # NoTool /\ Len(toolLog) < MaxOps
    /\ toolLog' = Append(toolLog, ToolCall("definition", << >>, TRUE, << >>,
                                           to_openai_function_call_definition(descriptor)))
    /\ descriptor' = DescriptorAfterSchemaCall(descriptor)
    /\ UNCHANGED <<heap, agents, actLog, handles, memLog, tools, memory,
                   tool_history, max_iterations, pc, iter, response, idx, chat_history,
                   user_message, outcome, lmCalls, invoked, attempted, validated,
                   runTurns, nextId, runs, regLog, execLog, extracted, action_dict,
                   react_loop>>

\* tool.args_schema
CallArgsSchema ==
    /\ descriptor # NoTool /\ Len(toolLog) < MaxOps
    /\ toolLog' = Append(toolLog, ToolCall("args_schema", << >>, TRUE, << >>,
                     [NoDefinition EXCEPT
                        !.description = args_schema(descriptor).description,
                        !.parameters.properties = args_schema(descriptor).properties,
                        !.parameters.required = args_schema(descriptor).required]))
    /\ descriptor' = DescriptorAfterSchemaCall(descriptor)
    /\ UNCHANGED <<heap, agents, actLog, handles, memLog, tools, memory,
                   tool_history, max_iterations, pc, iter, response, idx, chat_history,
                   user_message, outcome, lmCalls, invoked, attempted, validated,
                   runTurns, nextId, runs, regLog, execLog, extracted, action_dict,
                   react_loop>>

\* tool.validate_json_args(json_string)
CallValidate ==
    /\ descriptor # NoTool /\ Len(toolLog) < MaxOps
    /\ \E payload \in ToolPayloads :
         toolLog' = Append(toolLog, ToolCall("validate_json_args", payload,
                                             validate_json_args(descriptor, payload),
                                             << >>, NoDefinition))
    /\ UNCHANGED <<descriptor, heap, agents, actLog, handles, memLog, tools, memory,
                   tool_history, max_iterations, pc, iter, response, idx, chat_history,
                   user_message, outcome, lmCalls, invoked, attempted, validated,
                   runTurns, nextId, runs, regLog, execLog, extracted, action_dict,
                   react_loop>>

\* tool.run(**kwargs): the arguments validated by the args model, then the
\* function called; ValueError when the validation or the function fails
CallRun ==
    /\ descriptor # NoTool /\ Len(toolLog) < MaxOps
    /\ \E payload \in ToolPayloads, behaviour \in {"return", "raise"} :
         LET ok == validate_json_args(descriptor, payload) /\ behaviour = "return" IN
         toolLog' = Append(toolLog, ToolCall("run", payload, ok,
                                             IF ok THEN ToolOutput(descriptor, payload)
                                             ELSE << >>,
                                             NoDefinition))
    /\ UNCHANGED <<descriptor, heap, agents, actLog, handles, memLog, tools, memory,
                   tool_history, max_iterations, pc, iter, response, idx, chat_history,
                   user_message, outcome, lmCalls, invoked, attempted, validated,
                   runTurns, nextId, runs, regLog, execLog, extracted, action_dict,
                   react_loop>>

\* executor.register_tool(tool) with the descriptor constructed
RegisterConstructed ==
    /\ descriptor # NoTool /\ Len(regLog) < 1
    /\ tools' = RegisterResult(tools, descriptor)
    /\ regLog' = Append(regLog, descriptor)
    /\ UNCHANGED <<descriptor, toolLog, heap, agents, actLog, handles, memLog, memory,
                   tool_history, max_iterations, pc, iter, response, idx, chat_history,
                   user_message, outcome, lmCalls, invoked, attempted, validated,
                   runTurns, nextId, runs, execLog, extracted, action_dict, react_loop>>

NextTool ==
    \/ ConstructByDecorator
    \/ ConstructByInit
    \/ CallDefinition
    \/ CallArgsSchema
    \/ CallValidate
    \/ CallRun
    \/ RegisterConstructed

SpecTool == InitTool /\ [][NextTool]_vars

\* C26: constructing a descriptor for a callable without a human-readable
\* description fails on every construction path: no descriptor with an
\* empty description exists or is registered.
C26_NoDescriptorWithoutDescription ==
    /\ descriptor # NoTool =>
          /\ descriptor.func_doc # ""
          /\ descriptor.description # ""
    /\ \A name \in DOMAIN tools : tools[name].description # ""

\* The calls of the log in which the descriptor accepted the payload.
AcceptedCalls ==
    {i \in DOMAIN toolLog :
        toolLog[i].op \in {"validate_json_args", "run"} /\ toolLog[i].ok}

\* C27: the argument names listed in the structured-calling definition are
\* exactly those accepted by invocation: a payload is accepted only if every
\* name it uses is a property of the definition's parameters and every
\* required name is present.
C27_DefinitionNamesAreAcceptedNames ==
    descriptor # NoTool =>
        \A i \in AcceptedCalls :
            LET parameters == to_openai_function_call_definition(descriptor).parameters IN
            /\ Range(toolLog[i].payload) \subseteq parameters.properties
            /\ parameters.required \subseteq Range(toolLog[i].payload)

\* The calls of the log that returned a structured-calling definition.
DefinitionCalls == {i \in DOMAIN toolLog : toolLog[i].op = "definition"}

\* C28: to_openai_function_call_definition is deterministic and pure: all its
\* calls on a descriptor, interleaved with args_schema, validate_json_args and
\* run, return equal definitions, and no call changes the descriptor's name,
\* description or schema.
C28_DefinitionDeterministicAndPure ==
    /\ [](\A i, j \in DefinitionCalls : toolLog[i].definition = toolLog[j].definition)
    /\ [][descriptor # NoTool =>
            /\ descriptor'.name = descriptor.name
            /\ descriptor'.description = descriptor.description
            /\ args_schema(descriptor') = args_schema(descriptor)
            /\ descriptor'.title = descriptor.title]_vars

\* Two definitions were requested with an args_schema access and an
\* invocation between them.
C28_Witness ==
    /\ Len(toolLog) = MaxOps
    /\ toolLog[1].op = "definition"
    /\ toolLog[MaxOps].op = "definition"
    /\ \E i \in DOMAIN toolLog : toolLog[i].op \in {"args_schema", "run", "validate_json_args"}
    /\ descriptor.schema_description # ""

\* The ids of the invocations requested by the assistant turns of this run.
RequestedIds ==
    UNION {{runTurns[i].tool_calls[k].id : k \in DOMAIN runTurns[i].tool_calls} :
              i \in {j \in DOMAIN runTurns : runTurns[j].role = "assistant"}}

\* The budget bounds the LM calls of the run, there are no more tool executions
\* than LM calls could request, and a budget of 0 allows neither.
BudgetBoundsRun ==
    /\ lmCalls <= max_iterations
    /\ lmCalls = 0 => attempted = << >>
    /\ max_iterations = 0 => lmCalls = 0 /\ attempted = << >> /\ invoked = << >>

\* C29: whatever the LM answers and whatever the tools do, one run makes at
\* most max_iterations LM calls and executes tools only for the invocations
\* requested by those responses, each at most once; with max_iterations = 0
\* it makes no LM call and executes no tool.
C29_BudgetBoundsCallsAndTools ==
    /\ [](/\ BudgetBoundsRun
          /\ Range(attempted) \subseteq RequestedIds
          /\ Range(invoked) \subseteq Range(attempted)
          /\ \A id \in Range(attempted) : Occurrences(attempted, id) = 1)
    /\ [][attempted' # attempted /\ runs' = runs =>
            /\ RequestsTools(response)
            /\ attempted' = Append(attempted, response.tool_calls[idx].id)]_vars

\* A run used its whole budget of more than one LM call and executed tools
\* for the requests of more than one response.
C29_Witness ==
    /\ RunEnded
    /\ max_iterations > 1
    /\ lmCalls = max_iterations
    /\ Len(attempted) > 1
    /\ CountRole(runTurns, "assistant") = max_iterations
    /\ Range(attempted) = RequestedIds

\* The first LM call of the run has just been made.
FirstLMCall == pc = "parse" /\ lmCalls = 1

\* C30: tool history is transient per run: the request of the first LM call of
\* every run is the system message and the memory snapshot, with no assistant
\* tool-request turn and no tool-result turn of an earlier run, also after a
\* run that ended by budget exhaustion or by a tool failure.
C30_ToolHistoryTransientPerRun ==
    FirstLMCall =>
        /\ chat_history = <<SystemMessage>> \o get_messages(memory)
        /\ \A i \in DOMAIN chat_history :
              /\ chat_history[i].role # "tool"
              /\ chat_history[i].tool_calls = << >>

\* The turns are pairs: a user turn, then the final assistant turn answering it.
UserAnswerPairs(turns) ==
    /\ Len(turns) % 2 = 0
    /\ \A i \in DOMAIN turns :
          IF i % 2 = 1
          THEN turns[i].role = "user"
          ELSE turns[i].role = "assistant" /\ turns[i].tool_calls = << >>

\* C31: after any sequence of native runs on one agent without reset, whatever
\* the outcome of each run, memory is a sequence of pairs, a user turn followed
\* by the final assistant turn that answered it: no user turn is left in
\* memory without its answer.
C31_MemoryIsUserAnswerPairs ==
    pc = "idle" => UserAnswerPairs(memory)

\* C32: the ReAct run writes memory only when it produces a final answer:
\* exactly two turns, the user task then the final assistant turn, are
\* appended in that order; a run that ends by budget exhaustion or by a raised
\* error leaves memory exactly as it was before the run.
C32_ReActMemoryOnlyOnFinalAnswer ==
    /\ [][memory' # memory =>
            /\ pc = "react_parse" /\ pc' = "idle"
            /\ outcome'.kind = "return_response"
            /\ memory' = memory \o <<user_message>> \o outcome'.value
            /\ Len(memory') = Len(memory) + 2
            /\ memory'[Len(memory) + 1].role = "user"
            /\ memory'[Len(memory) + 2].role = "assistant"]_vars
    /\ [][(pc # "idle" /\ pc' = "idle" /\ outcome'.kind = "return_response") =>
            memory' # memory]_vars
    /\ [](pc = "idle" => Len(memory) % 2 = 0 /\ UserAnswerPairs(memory))

\* A second run ended by budget exhaustion or by an error after an executed
\* action; memory holds what the first run's final answer left there.
C32_Witness ==
    /\ pc = "idle"
    /\ runs = 2
    /\ outcome.kind \in {"return_None", "raise"}
    /\ attempted # << >>
    /\ Len(memory) = 2
    /\ memory[1].role = "user"
    /\ memory[2].role = "assistant"

\* The text holds the part as a contiguous piece.
Contains(text, part) ==
    \E k \in 0..(Len(text) - Len(part)) : SubSeq(text, k + 1, k + Len(part)) = part

\* C33: in the ReAct loop the thought/action text and the observation of every
\* executed action are appended to the run's context in execution order, the
\* prompt of each later LM call of the run contains all of them, and the
\* context is empty at the first LM call of every run.
C33_ContextCarriesThoughtsAndObservations ==
    /\ [][(pc = "react_parse" /\ pc' = "react_loop") =>
            react_loop' = react_loop \o response.content \o <<"Observation:">>
                            \o ToolOutput(tools[action_dict'.name], action_dict'.args_json)]_vars
    /\ [][react_loop' # react_loop =>
            \/ pc = "idle" /\ react_loop' = << >>
            \/ pc = "react_parse" /\ pc' = "react_loop"]_vars
    /\ [](pc = "react_parse" =>
            /\ Contains(chat_history[1].content, react_loop)
            /\ Observations(react_loop) = Len(invoked)
            /\ Len(invoked) = lmCalls - 1
            /\ lmCalls = 1 => react_loop = << >>)

\* A later LM call of a run was made after an executed action.
C33_Witness ==
    /\ pc = "react_parse"
    /\ lmCalls = 2
    /\ invoked = <<1>>
    /\ Observations(react_loop) = 1
    /\ Contains(chat_history[1].content, <<"Observation:", "get_weather", "location">>)

\* C34: the registry's name-to-tool mapping changes only through a successful
\* register_tool, which adds one new name: execute, succeeding or failing,
\* get_tool_names and get_tool_details leave it unchanged, and a registered
\* name is never removed or rebound to another tool.
C34_RegistryChangesOnlyByRegistration ==
    /\ [][tools' # tools =>
            /\ outcome' = Registered
            /\ Len(regLog') = Len(regLog) + 1
            /\ Last(regLog').name \notin DOMAIN tools
            /\ DOMAIN tools' = DOMAIN tools \cup {Last(regLog').name}
            /\ tools'[Last(regLog').name] = Last(regLog')]_vars
    /\ [][\A n \in DOMAIN tools : n \in DOMAIN tools' /\ tools'[n] = tools[n]]_vars
    /\ [][(runs' # runs /\ outcome'.op \in {"execute", "get_tool_names", "get_tool_details"})
            => tools' = tools]_vars

\* The names were read after a successful execute of a registered tool.
C34_Witness ==
    /\ outcome.op = "get_tool_names"
    /\ outcome.value = <<ResultValue(<<"get_weather">>)>>
    /\ invoked # << >>
    /\ tools = RegisterAll(EmptyRegistry, <<GetWeather>>)

\* ------------------------------------------------------------- depth-counting scanner
\* The scanner the claim compares the pattern search with: depth + 1 on "{",
\* depth - 1 on "}", the span recorded when the depth returns to zero. A "}"
\* met at depth zero is skipped. start is where the group now open began.
RECURSIVE DepthScanFrom(_, _, _, _)
DepthScanFrom(text, k, depth, start) ==
    IF k > Len(text) THEN [start |-> 0, end |-> 0]
    ELSE IF text[k] = "{"
         THEN DepthScanFrom(text, k + 1, depth + 1, IF depth = 0 THEN k ELSE start)
    ELSE IF text[k] = "}"
         THEN IF depth = 0 THEN DepthScanFrom(text, k + 1, 0, start)
              ELSE IF depth = 1 THEN [start |-> start, end |-> k]
              ELSE DepthScanFrom(text, k + 1, depth - 1, start)
    ELSE DepthScanFrom(text, k + 1, depth, start)
DepthScan(text) == DepthScanFrom(text, 1, 0, 0)

\* The text the search runs on.
Normalized == SingleBraces(Unescape(response.content))

\* What the extractor returns for a span of the normalized text.
ExtractedFromSpan(span) ==
    IF span.start = 0 THEN NoJson
    ELSE LET loaded == json_loads(SubSeq(Normalized, span.start, span.end)) IN
         IF loaded.ok THEN [kind |-> "json", val |-> loaded.val] ELSE NoJson

\* The first "{" of the normalized text is never closed.
FirstOpenUnclosed ==
    \E i \in DOMAIN Normalized :
       /\ Normalized[i] = "{"
       /\ \A j \in 1..(i - 1) : Normalized[j] # "{"
       /\ GroupEnd(Normalized, i + 1, 1) = 0

\* A "}" follows the first "{" of the normalized text.
CloseAfterFirstOpen ==
    \E i, j \in DOMAIN Normalized : i < j /\ Normalized[i] = "{" /\ Normalized[j] = "}"

\* C35: for every input text the span selected by the recursive-pattern
\* search equals the span found by the depth-counting scanner on the same
\* normalized text, also with unmatched opening or closing braces: both select
\* the first balanced span or both find none.
C35_SearchEqualsDepthScan ==
    (Extracted \/ Interpreted) => Search(Normalized) = DepthScan(Normalized)

\* C35 as amended: the two agree on every text whose first opening brace is
\* closed or that has no opening brace, unmatched closing braces included, and
\* the extractor and the interpreter return what the scanner's span gives.
\* When the first opening brace is never closed the scanner finds nothing and
\* the pattern search selects a later balanced span, which exists exactly
\* when a closing brace follows.
C35_SearchEqualsDepthScanWhenFirstOpenCloses ==
    /\ ((Extracted \/ Interpreted) /\ ~FirstOpenUnclosed) =>
          /\ Search(Normalized) = DepthScan(Normalized)
          /\ Extracted => extracted = ExtractedFromSpan(DepthScan(Normalized))
          /\ Interpreted => (action_dict = NoAction <=> DepthScan(Normalized).start = 0)
    /\ ((Extracted \/ Interpreted) /\ FirstOpenUnclosed) =>
          /\ DepthScan(Normalized).start = 0
          /\ Search(Normalized).start # 0 <=> CloseAfterFirstOpen
          /\ Extracted => extracted = ExtractedFromSpan(Search(Normalized))

\* A text with an unmatched closing brace before a balanced span was
\* searched: both select the span.
C35_Witness ==
    /\ Extracted /\ Interpreted
    /\ response.content = <<"}", "{", "w", "}">>
    /\ ~FirstOpenUnclosed
    /\ DepthScan(Normalized) = [start |-> 2, end |-> 4]
    /\ Search(Normalized) = [start |-> 2, end |-> 4]

====
